---- MODULE Spec2Model ----
(***************************************************************************)
(* Model of the cross-site Table 1 aggregation (AGG/aggregate_table1.py).  *)
(*                                                                         *)
(* Text is a sequence of one-character strings.  A Python float is kept as *)
(* a sign and an exact fraction [sg, n, d] (sg = -1 also for -0.0).  The    *)
(* numbers the specifications draw are multiples of 1/4 and at most a few  *)
(* sites are pooled, so every sum, mean and median is exactly representable*)
(* in binary64 or lies far from a rounding tie, and the round-half-even of *)
(* the exact value is what Python's '.1f' prints for it.                   *)
(***************************************************************************)
EXTENDS Integers, Sequences, FiniteSets, TLC

VARIABLES
    pc,        \* position of the run being modelled
    value,     \* StatParser: the cell handed to a parse_* method
    parsed,    \* StatParser: what the parse_* call produced
    values,    \* TableAggregator: the per-site list handed to aggregate_*
    total_n,   \* TableAggregator.aggregate_counts: the denominator
    formatted, \* StatParser: the text a format_* call produced
    pooled,    \* TableAggregator: what the aggregate_* call produced
    field,     \* aggregate_data: the field label being pooled
    files,     \* main: the documents found, in path order
    data,      \* main: the loaded (normalized) site documents
    cohort_i,  \* aggregate_data: how many cohorts of the loop are done
    result,    \* aggregate_data: cohort -> field -> pooled text
    written,   \* main: the output tables written so far, in order
    error,     \* the exception that ended the run, if any
    cohort_with_abx,     \* 02_table1: the site's hospitalizations
    cohort_stratified,   \* 02_table1: the treatment_group column
    table1_stratified    \* 02_table1: group -> field -> statistic text

codecVars == <<value, parsed, formatted>>
poolVars == <<values, pooled>>
mainVars == <<files, data, cohort_i, result, written, error>>
upstreamVars == <<cohort_with_abx, cohort_stratified, table1_stratified>>
vars == <<pc, value, parsed, formatted, values, total_n, pooled, field, files, data,
          cohort_i, result, written, error, cohort_with_abx, cohort_stratified,
          table1_stratified>>

(***************************************************************************)
(* Bounds of the model.                                                    *)
(***************************************************************************)
MaxTok == 3      \* longest number token drawn for the decoders
MaxShort == 2    \* longest string drawn over the whole alphabet
MaxSites == 3    \* longest per-site list handed to an aggregate_* method
MaxFiles == 2    \* most site documents found by one run
MaxParts == 2    \* most fragments a drawn field label is made of
MaxInt == 2      \* most digits before the decimal point of a drawn numeral
MaxRows == 6     \* most hospitalizations of a drawn site cohort

(***************************************************************************)
(* Characters.                                                             *)
(***************************************************************************)
Digits == <<"0", "1", "2", "3", "4", "5", "6", "7", "8", "9">>
DigitSet == {Digits[i] : i \in 1..10}
DigitVal(c) == (CHOOSE i \in 1..10 : Digits[i] = c) - 1
NumClass == DigitSet \cup {"-", "."}      \* [-\d.]
PctClass == DigitSet \cup {"."}           \* [\d.]
SpaceClass == {" "}                       \* \s
PM == "+-"                                \* the one character U+00B1, plus-minus
Alphabet == {"2", "5", "-", ".", " ", PM, "(", ")", "%", "[", "]", ",", "<", "+", "x"}

Abs(a) == IF a >= 0 THEN a ELSE -a

RECURSIVE Gcd(_, _)
Gcd(a, b) == IF b = 0 THEN a ELSE Gcd(b, a % b)

RECURSIVE Pow10(_)
Pow10(k) == IF k = 0 THEN 1 ELSE 10 * Pow10(k - 1)

(***************************************************************************)
(* Python values.  A cell of a site document is a JSON string, null or a   *)
(* JSON number; a decoder returns None, a tuple, or raises.                *)
(***************************************************************************)
Str(s) == [t |-> "str", v |-> s]
Null == [t |-> "null", v |-> <<>>]
JsonNumber == [t |-> "num", v |-> <<>>]
isinstance_str(x) == x.t = "str"

None == [k |-> "None", v |-> <<>>]
ValueError == [k |-> "ValueError", v |-> <<>>]
ZeroDivisionError == [k |-> "ZeroDivisionError", v |-> <<>>]
Ok(x) == [k |-> "ok", v |-> x]
Raises(r) == r.k \in {"ValueError", "ZeroDivisionError"}

Sentinels == {<<"n", "a", "n">>, <<"<", "N", "A", ">">>, <<>>}

(***************************************************************************)
(* Floats: sign and exact magnitude n/d in lowest terms.                   *)
(***************************************************************************)
Float(sg, n, d) ==
    LET g == Gcd(n, d) IN [sg |-> sg, n |-> n \div g, d |-> d \div g]
FromInt(i) == Float(IF i < 0 THEN -1 ELSE 1, Abs(i), 1)
Signed(a) == a.sg * a.n
FAdd(a, b) ==
    LET num == Signed(a) * b.d + Signed(b) * a.d
    IN  IF num = 0
        THEN Float(IF a.sg = -1 /\ b.sg = -1 THEN -1 ELSE 1, 0, 1)
        ELSE Float(IF num < 0 THEN -1 ELSE 1, Abs(num), a.d * b.d)
FDivInt(a, k) == Float(a.sg, a.n, a.d * k)
FMulInt(a, k) == Float(a.sg, a.n * k, a.d)
FLess(a, b) == Signed(a) * b.d < Signed(b) * a.d
FLeq(a, b) == Signed(a) * b.d <= Signed(b) * a.d
\* int / int, Python's true division of two integers
TrueDiv(a, b) ==
    IF b = 0 THEN ZeroDivisionError
    ELSE Ok(Float(IF (a < 0) # (b < 0) THEN -1 ELSE 1, Abs(a), Abs(b)))

(***************************************************************************)
(* str(int) and the '.1f' conversion.                                      *)
(***************************************************************************)
RECURSIVE NatToStr(_)
NatToStr(n) ==
    IF n < 10 THEN <<Digits[n + 1]>>
    ELSE NatToStr(n \div 10) \o <<Digits[(n % 10) + 1]>>
IntToStr(i) == IF i < 0 THEN <<"-">> \o NatToStr(-i) ELSE NatToStr(i)

\* the magnitude in tenths, rounded half to even
Tenths(f) ==
    LET q == (10 * f.n) \div f.d
        r == (10 * f.n) % f.d
    IN  IF 2 * r > f.d \/ (2 * r = f.d /\ q % 2 = 1) THEN q + 1 ELSE q
\* mutant: a negative zero is printed without its sign
Format1f_unsigned_zero(f) ==
    LET t == Tenths(f)
    IN  (IF f.sg = -1 /\ f.n # 0 THEN <<"-">> ELSE <<>>)
        \o NatToStr(t \div 10) \o <<".", Digits[(t % 10) + 1]>>

Format1f(f) ==
    LET t == Tenths(f)
    IN  (IF f.sg = -1 THEN <<"-">> ELSE <<>>)
        \o NatToStr(t \div 10) \o <<".", Digits[(t % 10) + 1]>>

(***************************************************************************)
(* float(token) and int(token) on the text a pattern group captured.       *)
(***************************************************************************)
CountOf(s, c) == Cardinality({i \in 1..Len(s) : s[i] = c})

RECURSIVE DigitsVal(_)
DigitsVal(s) ==
    IF Len(s) = 0 THEN 0
    ELSE 10 * DigitsVal(SubSeq(s, 1, Len(s) - 1)) + DigitVal(s[Len(s)])

\* float() of a text over [-\d.]: an optional sign, digits with at most one
\* point and at least one digit; anything else is a ValueError
float_of(tok) ==
    LET neg == Len(tok) > 0 /\ tok[1] = "-"
        body == IF neg THEN SubSeq(tok, 2, Len(tok)) ELSE tok
        dots == CountOf(body, ".")
        digs == SelectSeq(body, LAMBDA c : c \in DigitSet)
        dot == IF dots = 1 THEN CHOOSE i \in 1..Len(body) : body[i] = "." ELSE 0
    IN  IF CountOf(body, "-") > 0 \/ dots > 1 \/ Len(digs) = 0
        THEN ValueError
        ELSE Ok(Float(IF neg THEN -1 ELSE 1, DigitsVal(digs),
                      IF dots = 1 THEN Pow10(Len(body) - dot) ELSE 1))

\* int() of a whole text: surrounding blanks are stripped, one sign is
\* allowed, the rest must be digits; anything else is a ValueError
RECURSIVE Strip(_)
Strip(s) ==
    IF Len(s) > 0 /\ s[1] \in SpaceClass THEN Strip(Tail(s))
    ELSE IF Len(s) > 0 /\ s[Len(s)] \in SpaceClass THEN Strip(SubSeq(s, 1, Len(s) - 1))
    ELSE s
int_of(text) ==
    LET s == Strip(text)
        signed == Len(s) > 0 /\ s[1] \in {"-", "+"}
        body == IF signed THEN Tail(s) ELSE s
        digits == SelectSeq(body, LAMBDA c : c # "_")
    IN  IF \/ Len(body) = 0
           \/ \E i \in 1..Len(body) : body[i] \notin DigitSet \cup {"_"}
           \/ body[1] = "_" \/ body[Len(body)] = "_"
           \/ \E i \in 1..(Len(body) - 1) : body[i] = "_" /\ body[i + 1] = "_"
        THEN ValueError
        ELSE Ok(IF signed /\ s[1] = "-" THEN -DigitsVal(digits) ELSE DigitsVal(digits))

(***************************************************************************)
(* re.match: the patterns are anchored at the start, every repetition is   *)
(* greedy and is followed by a character outside its class, so a group     *)
(* captures the longest run of its class.                                  *)
(***************************************************************************)
RECURSIVE Run(_, _, _)
Run(s, i, class) ==
    IF i <= Len(s) /\ s[i] \in class THEN 1 + Run(s, i + 1, class) ELSE 0
At(s, i, c) == i <= Len(s) /\ s[i] = c

\* a tuple of converted groups, or the first conversion error
Tuple(rs) ==
    IF \E i \in 1..Len(rs) : Raises(rs[i]) THEN ValueError
    ELSE Ok([i \in 1..Len(rs) |-> rs[i].v])

\* r'([-\d.]+)\s*<PM>\s*([-\d.]+)'
parse_mean_sd(x) ==
    IF ~isinstance_str(x) \/ x.v \in Sentinels THEN None
    ELSE LET s == x.v
             n1 == Run(s, 1, NumClass)
             pm == 1 + n1 + Run(s, 1 + n1, SpaceClass)
             g2 == pm + 1 + Run(s, pm + 1, SpaceClass)
             n2 == Run(s, g2, NumClass)
         IN  IF n1 > 0 /\ At(s, pm, PM) /\ n2 > 0
             THEN Tuple(<<float_of(SubSeq(s, 1, n1)),
                          float_of(SubSeq(s, g2, g2 + n2 - 1))>>)
             ELSE None

\* r'([-\d.]+)\s*\[([-\d.]+),\s*([-\d.]+)\]'
parse_median_iqr(x) ==
    IF ~isinstance_str(x) \/ x.v \in Sentinels THEN None
    ELSE LET s == x.v
             n1 == Run(s, 1, NumClass)
             lb == 1 + n1 + Run(s, 1 + n1, SpaceClass)
             n2 == Run(s, lb + 1, NumClass)
             cm == lb + 1 + n2
             g3 == cm + 1 + Run(s, cm + 1, SpaceClass)
             n3 == Run(s, g3, NumClass)
         IN  IF n1 > 0 /\ At(s, lb, "[") /\ n2 > 0 /\ At(s, cm, ",")
                /\ n3 > 0 /\ At(s, g3 + n3, "]")
             THEN Tuple(<<float_of(SubSeq(s, 1, n1)),
                          float_of(SubSeq(s, lb + 1, lb + n2)),
                          float_of(SubSeq(s, g3, g3 + n3 - 1))>>)
             ELSE None

\* mutant: the percent sign is required
parse_count_pct_percent_required(x) ==
    IF ~isinstance_str(x) \/ x.v \in Sentinels THEN None
    ELSE LET s == x.v
             n1 == Run(s, 1, DigitSet)
             lp == 1 + n1 + Run(s, 1 + n1, SpaceClass)
             n2 == Run(s, lp + 1, PctClass)
             e2 == lp + 1 + n2
         IN  IF n1 > 0 /\ At(s, lp, "(") /\ n2 > 0 /\ At(s, e2, "%")
                /\ At(s, e2 + 1, ")")
             THEN Tuple(<<Ok(DigitsVal(SubSeq(s, 1, n1))),
                          float_of(SubSeq(s, lp + 1, lp + n2))>>)
             ELSE None

\* mutant: the pattern has to match the text to its end
parse_count_pct_fullmatch(x) ==
    IF ~isinstance_str(x) \/ x.v \in Sentinels THEN None
    ELSE LET s == x.v
             n1 == Run(s, 1, DigitSet)
             lp == 1 + n1 + Run(s, 1 + n1, SpaceClass)
             n2 == Run(s, lp + 1, PctClass)
             e2 == lp + 1 + n2
             rp == IF At(s, e2, "%") THEN e2 + 1 ELSE e2
         IN  IF n1 > 0 /\ At(s, lp, "(") /\ n2 > 0 /\ At(s, rp, ")") /\ rp = Len(s)
             THEN Tuple(<<Ok(DigitsVal(SubSeq(s, 1, n1))),
                          float_of(SubSeq(s, lp + 1, lp + n2))>>)
             ELSE None

\* r'(\d+)\s*\(([\d.]+)%?\)'
parse_count_pct(x) ==
    IF ~isinstance_str(x) \/ x.v \in Sentinels THEN None
    ELSE LET s == x.v
             n1 == Run(s, 1, DigitSet)
             lp == 1 + n1 + Run(s, 1 + n1, SpaceClass)
             n2 == Run(s, lp + 1, PctClass)
             e2 == lp + 1 + n2
             rp == IF At(s, e2, "%") THEN e2 + 1 ELSE e2
         IN  IF n1 > 0 /\ At(s, lp, "(") /\ n2 > 0 /\ At(s, rp, ")")
             THEN Tuple(<<Ok(DigitsVal(SubSeq(s, 1, n1))),
                          float_of(SubSeq(s, lp + 1, lp + n2))>>)
             ELSE None

\* mutant: the ValueError of int() is not caught
parse_n_uncaught(x) ==
    IF ~isinstance_str(x) \/ x.v \in Sentinels THEN None ELSE int_of(x.v)

\* int(value), ValueError caught
parse_n(x) ==
    IF ~isinstance_str(x) \/ x.v \in Sentinels THEN None
    ELSE LET r == int_of(x.v) IN IF r.k = "ValueError" THEN None ELSE r

format_mean_sd(mean, sd) == Format1f(mean) \o <<" ", PM, " ">> \o Format1f(sd)
format_median_iqr(median, q1, q3) ==
    Format1f(median) \o <<" ", "[">> \o Format1f(q1) \o <<",", " ">>
        \o Format1f(q3) \o <<"]">>
format_count_pct(count, pct) ==
    IntToStr(count) \o <<" ", "(">> \o Format1f(pct) \o <<"%", ")">>

(***************************************************************************)
(* TableAggregator.                                                        *)
(***************************************************************************)
Present(vals) == SelectSeq(vals, LAMBDA v : v.k # "None")

RECURSIVE sum(_)
sum(ints) == IF Len(ints) = 0 THEN 0 ELSE ints[1] + sum(Tail(ints))

\* np.mean of a non-empty list: the running sum divided by the length
RECURSIVE FSum(_)
FSum(fs) ==
    IF Len(fs) = 1 THEN fs[1]
    ELSE FAdd(FSum(SubSeq(fs, 1, Len(fs) - 1)), fs[Len(fs)])
np_mean(fs) == FDivInt(FSum(fs), Len(fs))

\* the k-th smallest element of a list
Kth(fs, k) ==
    fs[CHOOSE i \in 1..Len(fs) :
          /\ Cardinality({j \in 1..Len(fs) : FLess(fs[j], fs[i])}) < k
          /\ Cardinality({j \in 1..Len(fs) : FLeq(fs[j], fs[i])}) >= k]
\* mutant: the middle of the list as it comes, without sorting it
np_median_unsorted(fs) ==
    LET n == Len(fs)
    IN  IF n % 2 = 1 THEN fs[(n + 1) \div 2]
        ELSE np_mean(<<fs[n \div 2], fs[n \div 2 + 1]>>)

\* np.median of a non-empty list: the middle element, or the mean of the
\* two middle elements
np_median(fs) ==
    LET n == Len(fs)
    IN  IF n % 2 = 1 THEN Kth(fs, (n + 1) \div 2)
        ELSE np_mean(<<Kth(fs, n \div 2), Kth(fs, n \div 2 + 1)>>)

Column(valid, c) == [i \in 1..Len(valid) |-> valid[i].v[c]]

\* mutant: an empty list of present values pools to "nan", as the other families do
aggregate_n_nan(vals) ==
    LET valid == Present(vals)
    IN  IF Len(valid) = 0 THEN Ok(<<"n", "a", "n">>)
        ELSE Ok(IntToStr(sum([i \in 1..Len(valid) |-> valid[i].v])))

aggregate_n(vals) ==
    LET valid == Present(vals)
    IN  IF Len(valid) = 0 THEN Ok(<<"0">>)
        ELSE Ok(IntToStr(sum([i \in 1..Len(valid) |-> valid[i].v])))

\* mutant: the sums are divided by the number of sites, absent ones included
aggregate_means_all_sites(vals) ==
    LET valid == Present(vals)
    IN  IF Len(valid) = 0 THEN Ok(<<"n", "a", "n">>)
        ELSE Ok(format_mean_sd(FDivInt(FSum(Column(valid, 1)), Len(vals)),
                               FDivInt(FSum(Column(valid, 2)), Len(vals))))

aggregate_means(vals) ==
    LET valid == Present(vals)
    IN  IF Len(valid) = 0 THEN Ok(<<"n", "a", "n">>)
        ELSE Ok(format_mean_sd(np_mean(Column(valid, 1)), np_mean(Column(valid, 2))))

\* mutant: a combined IQR, the smallest Q1 and the largest Q3 of the sites
aggregate_medians_combined_iqr(vals) ==
    LET valid == Present(vals)
    IN  IF Len(valid) = 0 THEN Ok(<<"n", "a", "n">>)
        ELSE Ok(format_median_iqr(np_median(Column(valid, 1)),
                                  Kth(Column(valid, 2), 1),
                                  Kth(Column(valid, 3), Len(valid))))

\* mutant: the pooled quartiles change places
aggregate_medians_quartiles_swapped(vals) ==
    LET valid == Present(vals)
    IN  IF Len(valid) = 0 THEN Ok(<<"n", "a", "n">>)
        ELSE Ok(format_median_iqr(np_median(Column(valid, 1)),
                                  np_median(Column(valid, 3)),
                                  np_median(Column(valid, 2))))

aggregate_medians(vals) ==
    LET valid == Present(vals)
    IN  IF Len(valid) = 0 THEN Ok(<<"n", "a", "n">>)
        ELSE Ok(format_median_iqr(np_median(Column(valid, 1)),
                                  np_median(Column(valid, 2)),
                                  np_median(Column(valid, 3))))

\* mutant: the percentage is the mean of the sites' percentages
aggregate_counts_mean_pct(vals, n) ==
    LET valid == Present(vals)
    IN  IF Len(valid) = 0 \/ n = 0
        THEN Ok(<<"0", " ", "(", "0", ".", "0", "%", ")">>)
        ELSE Ok(format_count_pct(sum(Column(valid, 1)), np_mean(Column(valid, 2))))

\* mutant: the percentage of a single reporting site is kept as the site gave it
aggregate_counts_single_site_verbatim(vals, n) ==
    LET valid == Present(vals)
    IN  IF Len(valid) = 0 \/ n = 0
        THEN Ok(<<"0", " ", "(", "0", ".", "0", "%", ")">>)
        ELSE IF Len(valid) = 1
        THEN Ok(format_count_pct(valid[1].v[1], valid[1].v[2]))
        ELSE Ok(format_count_pct(sum(Column(valid, 1)),
                                 FMulInt(TrueDiv(sum(Column(valid, 1)), n).v, 100)))

\* mutant: the guard forgets the zero denominator
aggregate_counts_unguarded(vals, n) ==
    LET valid == Present(vals)
    IN  IF Len(valid) = 0
        THEN Ok(<<"0", " ", "(", "0", ".", "0", "%", ")">>)
        ELSE LET total_count == sum(Column(valid, 1))
                 ratio == TrueDiv(total_count, n)
             IN  IF Raises(ratio) THEN ratio
                 ELSE Ok(format_count_pct(total_count, FMulInt(ratio.v, 100)))

aggregate_counts(vals, n) ==
    LET valid == Present(vals)
    IN  IF Len(valid) = 0 \/ n = 0
        THEN Ok(<<"0", " ", "(", "0", ".", "0", "%", ")">>)
        ELSE LET total_count == sum(Column(valid, 1))
                 ratio == TrueDiv(total_count, n)
             IN  IF Raises(ratio) THEN ratio
                 ELSE Ok(format_count_pct(total_count, FMulInt(ratio.v, 100)))

(***************************************************************************)
(* Text operations and the labels the code names.                          *)
(***************************************************************************)
startswith(s, p) == Len(s) >= Len(p) /\ SubSeq(s, 1, Len(p)) = p
contains(s, p) ==
    \E i \in 1..(Len(s) - Len(p) + 1) : SubSeq(s, i, i + Len(p) - 1) = p

\* the characters in code point order, for sorted()
CodePoints ==
    <<" ", "%", "(", ")", "+", ",", "-", ".",
      "0", "1", "2", "3", "4", "5", "6", "7", "8", "9", ":", "<", ">",
      "A", "B", "C", "D", "E", "F", "G", "H", "I", "J", "K", "L", "M",
      "N", "O", "P", "Q", "R", "S", "T", "U", "V", "W", "X", "Y", "Z",
      "[", "]",
      "a", "b", "c", "d", "e", "f", "g", "h", "i", "j", "k", "l", "m",
      "n", "o", "p", "q", "r", "s", "t", "u", "v", "w", "x", "y", "z", PM>>
ord(c) == CHOOSE i \in 1..Len(CodePoints) : CodePoints[i] = c
RECURSIVE StrLess(_, _)
StrLess(a, b) ==
    IF Len(b) = 0 THEN FALSE
    ELSE IF Len(a) = 0 THEN TRUE
    ELSE IF a[1] = b[1] THEN StrLess(Tail(a), Tail(b))
    ELSE ord(a[1]) < ord(b[1])
RECURSIVE sorted(_)
sorted(S) ==
    IF S = {} THEN <<>>
    ELSE LET m == CHOOSE x \in S : \A y \in S \ {x} : StrLess(x, y)
         IN  <<m>> \o sorted(S \ {m})

L_N == <<"N">>
L_NSpace == <<"N", " ">>
L_UniquePatients ==
    <<"U", "n", "i", "q", "u", "e", " ", "P", "a", "t", "i", "e", "n", "t",
      "s">>
L_Patients == <<"P", "a", "t", "i", "e", "n", "t", "s">>
L_MeanSd == <<"(", "m", "e", "a", "n", " ", PM, " ", "S", "D", ")">>
L_MedianIqr ==
    <<"(", "m", "e", "d", "i", "a", "n", " ", "[", "I", "Q", "R", "]", ")">>
L_NWithIcuStay ==
    <<"N", " ", "w", "i", "t", "h", " ", "I", "C", "U", " ", "s", "t", "a",
      "y">>
L_AgeMeanSd ==
    <<"A", "g", "e", " ", "(", "m", "e", "a", "n", " ", PM, " ", "S", "D",
      ")">>
L_AgeMedianIqr ==
    <<"A", "g", "e", " ", "(", "m", "e", "d", "i", "a", "n", " ", "[", "I",
      "Q", "R", "]", ")">>
L_BmiMeanSd ==
    <<"B", "M", "I", " ", "(", "m", "e", "a", "n", " ", PM, " ", "S", "D",
      ")">>
L_BmiMedianIqr ==
    <<"B", "M", "I", " ", "(", "m", "e", "d", "i", "a", "n", " ", "[", "I",
      "Q", "R", "]", ")">>
L_Vancomycin ==
    <<"A", "n", "t", "i", "b", "i", "o", "t", "i", "c", ":", " ", "V", "a",
      "n", "c", "o", "m", "y", "c", "i", "n">>
L_SexMale == <<"S", "e", "x", ":", " ", "M", "a", "l", "e">>
L_SexFemale == <<"S", "e", "x", ":", " ", "F", "e", "m", "a", "l", "e">>
L_Sexmale == <<"S", "e", "x", ":", " ", "m", "a", "l", "e">>
L_Sexfemale == <<"S", "e", "x", ":", " ", "f", "e", "m", "a", "l", "e">>

(***************************************************************************)
(* A dict is the sequence of its <<key, value>> items in insertion order,  *)
(* keys distinct.                                                          *)
(***************************************************************************)
keys(d) == {d[i][1] : i \in 1..Len(d)}
IndexOf(d, k) == CHOOSE i \in 1..Len(d) : d[i][1] = k
get(d, k, default) == IF k \in keys(d) THEN d[IndexOf(d, k)][2] ELSE default
setitem(d, k, v) ==
    IF k \in keys(d) THEN [d EXCEPT ![IndexOf(d, k)] = <<k, v>>]
    ELSE Append(d, <<k, v>>)

(***************************************************************************)
(* A file holds text that is not JSON, or a JSON object with or without    *)
(* the keys site_name and cohort_groups.                                   *)
(***************************************************************************)
Absent == [has |-> FALSE, v |-> <<>>]
Some(x) == [has |-> TRUE, v |-> x]
InvalidJson == [json |-> FALSE, site_name |-> Absent, cohort_groups |-> Absent]
Document(name, groups) ==
    [json |-> TRUE, site_name |-> name, cohort_groups |-> groups]

\* mutant: every key is kept as the site spelled it
normalize_field_names_verbatim(cohort_data) == cohort_data

RECURSIVE normalize_field_names(_)
normalize_field_names(cohort_data) ==
    IF Len(cohort_data) = 0 THEN <<>>
    ELSE LET n == Len(cohort_data)
             key == cohort_data[n][1]
             norm == IF key = L_Sexmale THEN L_SexMale
                     ELSE IF key = L_Sexfemale THEN L_SexFemale
                     ELSE key
         IN  setitem(normalize_field_names(SubSeq(cohort_data, 1, n - 1)),
                     norm, cohort_data[n][2])

\* one file of load_json_files: the loaded document, or the exception
load_json_file(file) ==
    IF ~file.json THEN [k |-> "JSONDecodeError", v |-> <<>>]
    ELSE IF ~file.cohort_groups.has THEN [k |-> "KeyError", v |-> <<>>]
    ELSE LET groups == file.cohort_groups.v
         IN  Ok([file EXCEPT !.cohort_groups =
                    Some([i \in 1..Len(groups) |->
                            <<groups[i][1], normalize_field_names(groups[i][2])>>])])

\* mutant: a file that does not load is left out
load_json_files_skipping(fs) ==
    LET loaded == [i \in 1..Len(fs) |-> load_json_file(fs[i])]
        kept == SelectSeq(loaded, LAMBDA r : r.k = "ok")
    IN  Ok([i \in 1..Len(kept) |-> kept[i].v])

\* the list of loaded documents, or the exception of the first file that fails
load_json_files(fs) ==
    LET loaded == [i \in 1..Len(fs) |-> load_json_file(fs[i])]
    IN  IF \E i \in 1..Len(fs) : loaded[i].k # "ok"
        THEN loaded[CHOOSE i \in 1..Len(fs) :
                       /\ loaded[i].k # "ok"
                       /\ \A j \in 1..(i - 1) : loaded[j].k = "ok"]
        ELSE Ok([i \in 1..Len(fs) |-> loaded[i].v])

priority_fields ==
    <<L_N, L_UniquePatients, L_NWithIcuStay, L_AgeMeanSd, L_AgeMedianIqr,
      L_BmiMeanSd, L_BmiMedianIqr>>

\* mutant: all the labels in ascending order, the priority list forgotten
get_all_field_names_sorted_only(docs) ==
    sorted(UNION {UNION {keys(docs[i].cohort_groups.v[j][2]) :
                            j \in 1..Len(docs[i].cohort_groups.v)} :
                     i \in 1..Len(docs)})

get_all_field_names(docs) ==
    LET fields == UNION {UNION {keys(docs[i].cohort_groups.v[j][2]) :
                                   j \in 1..Len(docs[i].cohort_groups.v)} :
                            i \in 1..Len(docs)}
        first == SelectSeq(priority_fields, LAMBDA f : f \in fields)
    IN  first \o sorted(fields \ {priority_fields[i] : i \in 1..Len(priority_fields)})

cohorts == <<"antibiotics_only", "intrapleural_lytics", "vats_cohort", "total">>

\* mutant: the median rule is tested before the mean rule
field_family_median_first(f) ==
    IF f = L_N \/ startswith(f, L_NSpace) \/ f = L_UniquePatients
       \/ contains(f, L_Patients)
    THEN "Count"
    ELSE IF contains(f, L_MedianIqr) THEN "MedianIQR"
    ELSE IF contains(f, L_MeanSd) THEN "MeanSD"
    ELSE "CountPct"

\* lines 229-242: the family whose decoder and pooling a label selects
field_family(f) ==
    IF f = L_N \/ startswith(f, L_NSpace) \/ f = L_UniquePatients
       \/ contains(f, L_Patients)
    THEN "Count"
    ELSE IF contains(f, L_MeanSd) THEN "MeanSD"
    ELSE IF contains(f, L_MedianIqr) THEN "MedianIQR"
    ELSE "CountPct"

\* lines 228-245: decode every site's value for the field and pool them; a
\* decoder that raises ends the call
pool_field(f, cells, n) ==
    LET family == field_family(f)
        decoded == [i \in 1..Len(cells) |->
                      CASE family = "Count" -> parse_n(cells[i])
                        [] family = "MeanSD" -> parse_mean_sd(cells[i])
                        [] family = "MedianIQR" -> parse_median_iqr(cells[i])
                        [] OTHER -> parse_count_pct(cells[i])]
    IN  IF \E i \in 1..Len(cells) : Raises(decoded[i]) THEN ValueError
        ELSE CASE family = "Count" -> aggregate_n(decoded)
               [] family = "MeanSD" -> aggregate_means(decoded)
               [] family = "MedianIQR" -> aggregate_medians(decoded)
               [] OTHER -> aggregate_counts(decoded, n)

cohort_data_of(doc, cohort) == get(doc.cohort_groups.v, cohort, <<>>)

\* mutant: the denominator is the N of the overall cohort, whatever the cohort
first_pass_total_n_overall(docs, cohort) ==
    LET n_values == [i \in 1..Len(docs) |->
                        parse_n(get(cohort_data_of(docs[i], "total"), L_N,
                                    Str(<<"0">>)))]
        total_n_str == aggregate_n(n_values).v
    IN  IF total_n_str # <<"0">> THEN int_of(total_n_str).v ELSE 0

\* lines 208-216: the first pass, the pooled N of the cohort as an integer
first_pass_total_n(docs, cohort) ==
    LET n_values == [i \in 1..Len(docs) |->
                        parse_n(get(cohort_data_of(docs[i], cohort), L_N,
                                    Str(<<"0">>)))]
        total_n_str == aggregate_n(n_values).v
    IN  IF total_n_str # <<"0">> THEN int_of(total_n_str).v ELSE 0

\* lines 219-245: the second pass, field -> pooled text or the exception
second_pass(docs, cohort, all_fields, n) ==
    [j \in 1..Len(all_fields) |->
        <<all_fields[j],
          pool_field(all_fields[j],
                     [i \in 1..Len(docs) |->
                         get(cohort_data_of(docs[i], cohort), all_fields[j], Null)],
                     n)>>]

\* one turn of the loop over the cohorts (lines 205-245)
aggregate_cohort(docs, cohort) ==
    LET n == first_pass_total_n(docs, cohort)
        pooled_fields == second_pass(docs, cohort, get_all_field_names(docs), n)
    IN  [total_n |-> n,
         raised |-> \E j \in 1..Len(pooled_fields) : Raises(pooled_fields[j][2]),
         fields |-> [j \in 1..Len(pooled_fields) |->
                        <<pooled_fields[j][1], pooled_fields[j][2].v>>]]

\* the variables of main, in a run that calls a decoder or the aggregator alone
MainIdle ==
    /\ files = <<>>
    /\ data = <<>>
    /\ cohort_i = 0
    /\ result = <<>>
    /\ written = <<>>
    /\ error = "none"

\* the variables of 02_table1, in a run of the aggregation script
UpstreamIdle ==
    /\ cohort_with_abx = <<>>
    /\ cohort_stratified = <<>>
    /\ table1_stratified = <<>>

(***************************************************************************)
(* Inputs of the decoders: non-strings, the sentinels, every short string  *)
(* over the alphabet, and texts built around each pattern in which one     *)
(* number token is an arbitrary arrangement of digits, '-' and '.'.        *)
(***************************************************************************)
SeqsUpTo(S, lo, hi) == UNION {[1..k -> S] : k \in lo..hi}

TokChars == {"2", "5", "-", "."}
NumTokens == SeqsUpTo(TokChars, 1, MaxTok)
FewTokens == {<<"2", ".", "5">>, <<"5">>}
TokenPairs == (NumTokens \X FewTokens) \cup (FewTokens \X NumTokens)
Leads == {<<>>, <<"x">>}
Blanks == {<<>>, <<" ">>}
Trails == {<<>>, <<"x">>}

MeanSdTexts ==
    {l \o p[1] \o b \o <<PM>> \o b \o p[2] \o t :
        l \in Leads, p \in TokenPairs, b \in Blanks, t \in Trails}
MedianIqrTexts ==
    {l \o p[1] \o b \o <<"[">> \o q \o <<",">> \o b \o p[2] \o <<"]">> \o t :
        l \in Leads, p \in TokenPairs, q \in FewTokens, b \in Blanks, t \in Trails}
    \cup {<<"5", " ", "[">> \o q \o <<",", " ", "5", "]">> : q \in NumTokens}
CountPctTexts ==
    {l \o p[1] \o b \o <<"(">> \o p[2] \o c \o <<")">> \o t :
        l \in Leads, p \in TokenPairs, b \in Blanks, c \in {<<>>, <<"%">>},
        t \in Trails}
IntTexts ==
    {l \o n \o t : l \in {<<>>, <<" ">>, <<"+">>, <<"<">>}, n \in NumTokens,
                   t \in {<<>>, <<" ">>, <<"x">>, <<" ", "(", "2", "%", ")">>}}
    \cup {<<"2", "_", "5">>, <<"-", "2", "_", "5">>, <<"_", "5">>, <<"5", "_">>,
          <<"2", "_", "_", "5">>, <<"2", "_", "5", " ">>}

CodecInputs ==
    {Null, JsonNumber}
    \cup {Str(s) : s \in Sentinels \cup SeqsUpTo(Alphabet, 0, MaxShort)
                          \cup MeanSdTexts \cup MedianIqrTexts
                          \cup CountPctTexts \cup IntTexts}

Parsers == {"parse_mean_sd", "parse_median_iqr", "parse_count_pct", "parse_n"}

InitCodec ==
    /\ pc = "call_parse"
    /\ value \in CodecInputs
    /\ parsed = None
    /\ formatted = None
    /\ values = <<>>
    /\ total_n = 0
    /\ pooled = None
    /\ field = <<>>
    /\ MainIdle
    /\ UpstreamIdle

ParseMeanSd ==
    /\ pc = "call_parse"
    /\ parsed' = parse_mean_sd(value)
    /\ pc' = "parse_mean_sd"
    /\ UNCHANGED <<value, formatted, values, total_n, pooled, field, mainVars, upstreamVars>>

ParseMedianIqr ==
    /\ pc = "call_parse"
    /\ parsed' = parse_median_iqr(value)
    /\ pc' = "parse_median_iqr"
    /\ UNCHANGED <<value, formatted, values, total_n, pooled, field, mainVars, upstreamVars>>

ParseCountPct ==
    /\ pc = "call_parse"
    /\ parsed' = parse_count_pct(value)
    /\ pc' = "parse_count_pct"
    /\ UNCHANGED <<value, formatted, values, total_n, pooled, field, mainVars, upstreamVars>>

ParseN ==
    /\ pc = "call_parse"
    /\ parsed' = parse_n(value)
    /\ pc' = "parse_n"
    /\ UNCHANGED <<value, formatted, values, total_n, pooled, field, mainVars, upstreamVars>>

NextCodec == ParseMeanSd \/ ParseMedianIqr \/ ParseCountPct \/ ParseN

SpecCodec == InitCodec /\ [][NextCodec]_vars

(***************************************************************************)
(* Decode then encode: a text goes through parse_mean_sd or                *)
(* parse_median_iqr and what was decoded through the matching format_*.    *)
(* The numbers are numerals with one decimal place, with and without       *)
(* leading zeros.                                                          *)
(***************************************************************************)
IntParts == SeqsUpTo({"0", "1", "9"}, 1, MaxInt)
Numerals ==
    {sign \o int \o <<".", d>> :
        sign \in {<<>>, <<"-">>}, int \in IntParts, d \in {"0", "5", "9"}}
FewNumerals == {<<"1", "9", ".", "5">>, <<"-", "0", ".", "0">>}
NumeralPairs == (Numerals \X FewNumerals) \cup (FewNumerals \X Numerals)
NumeralTriples ==
    (Numerals \X FewNumerals \X FewNumerals)
    \cup (FewNumerals \X Numerals \X FewNumerals)
    \cup (FewNumerals \X FewNumerals \X Numerals)
RoundTripInputs ==
    {Str(p[1] \o b \o <<PM>> \o b \o p[2]) : p \in NumeralPairs, b \in Blanks}
    \cup {Str(t[1] \o b \o <<"[">> \o t[2] \o <<",">> \o b \o t[3] \o <<"]">>) :
             t \in NumeralTriples, b \in Blanks}

InitRoundTrip ==
    /\ pc = "call_parse"
    /\ value \in RoundTripInputs
    /\ parsed = None
    /\ formatted = None
    /\ values = <<>>
    /\ total_n = 0
    /\ pooled = None
    /\ field = <<>>
    /\ MainIdle
    /\ UpstreamIdle

FormatMeanSd ==
    /\ pc = "parse_mean_sd"
    /\ parsed.k = "ok"
    /\ formatted' = Ok(format_mean_sd(parsed.v[1], parsed.v[2]))
    /\ pc' = "format_mean_sd"
    /\ UNCHANGED <<value, parsed, values, total_n, pooled, field, mainVars, upstreamVars>>

FormatMedianIqr ==
    /\ pc = "parse_median_iqr"
    /\ parsed.k = "ok"
    /\ formatted' = Ok(format_median_iqr(parsed.v[1], parsed.v[2], parsed.v[3]))
    /\ pc' = "format_median_iqr"
    /\ UNCHANGED <<value, parsed, values, total_n, pooled, field, mainVars, upstreamVars>>

NextRoundTrip == ParseMeanSd \/ ParseMedianIqr \/ FormatMeanSd \/ FormatMedianIqr

SpecRoundTrip == InitRoundTrip /\ [][NextRoundTrip]_vars

(***************************************************************************)
(* Inputs of the aggregator: lists of decoded values, one entry per site,  *)
(* each None or a value of the family of the method about to be called.    *)
(***************************************************************************)
Q(k) == Float(IF k < 0 THEN -1 ELSE 1, Abs(k), 4)      \* k quarters

CountValues == {None} \cup {Ok(i) : i \in {0, 3, 5, 7, -2}}
MeanSdValues ==
    {None} \cup {Ok(<<Q(m), Q(s)>>) : m \in {40, 80, 2, -5}, s \in {8, 16, 1}}
MedianIqrValues ==
    {None} \cup {Ok(<<Q(t[1]), Q(t[2]), Q(t[3])>>) :
                    t \in {<<20, 4, 36>>, <<28, 8, 44>>, <<24, 24, 24>>,
                           <<5, 2, 15>>, <<36, 12, 40>>, <<-4, -8, 0>>}}
CountPctValues ==
    {None} \cup {Ok(<<c, Q(p)>>) : c \in {0, 3, 7}, p \in {0, 60, 200}}
TotalNs == {0, 20, 16, 3, -4}

Lists(D) == SeqsUpTo(D, 0, MaxSites)

InitPool ==
    /\ value = Null
    /\ parsed = None
    /\ formatted = None
    /\ pooled = None
    /\ field = <<>>
    /\ MainIdle
    /\ UpstreamIdle
    /\ \/ pc = "call_aggregate_n" /\ values \in Lists(CountValues) /\ total_n = 0
       \/ pc = "call_aggregate_means" /\ values \in Lists(MeanSdValues) /\ total_n = 0
       \/ pc = "call_aggregate_medians" /\ values \in Lists(MedianIqrValues)
            /\ total_n = 0
       \/ pc = "call_aggregate_counts" /\ values \in Lists(CountPctValues)
            /\ total_n \in TotalNs

AggregateN ==
    /\ pc = "call_aggregate_n"
    /\ pooled' = aggregate_n(values)
    /\ pc' = "aggregate_n"
    /\ UNCHANGED <<codecVars, values, total_n, field, mainVars, upstreamVars>>

AggregateMeans ==
    /\ pc = "call_aggregate_means"
    /\ pooled' = aggregate_means(values)
    /\ pc' = "aggregate_means"
    /\ UNCHANGED <<codecVars, values, total_n, field, mainVars, upstreamVars>>

AggregateMedians ==
    /\ pc = "call_aggregate_medians"
    /\ pooled' = aggregate_medians(values)
    /\ pc' = "aggregate_medians"
    /\ UNCHANGED <<codecVars, values, total_n, field, mainVars, upstreamVars>>

AggregateCounts ==
    /\ pc = "call_aggregate_counts"
    /\ pooled' = aggregate_counts(values, total_n)
    /\ pc' = "aggregate_counts"
    /\ UNCHANGED <<codecVars, values, total_n, field, mainVars, upstreamVars>>

NextPool == AggregateN \/ AggregateMeans \/ AggregateMedians \/ AggregateCounts

SpecPool == InitPool /\ [][NextPool]_vars

\* lines 254-279: the site table of one cohort, site_name -> field -> cell,
\* or the KeyError of a document without site_name
\* mutant: every cell is replaced by what the decoder of its family reads
RECURSIVE site_columns_decoded(_, _, _)
site_columns_decoded(docs, cohort_name, all_fields) ==
    IF Len(docs) = 0 THEN <<>>
    ELSE LET n == Len(docs)
             cohort_data == cohort_data_of(docs[n], cohort_name)
             column == [j \in 1..Len(all_fields) |->
                          LET cell == get(cohort_data, all_fields[j], Str(<<>>))
                              decoded == pool_field(all_fields[j], <<cell>>, 1)
                          IN  <<all_fields[j],
                                IF cell = Null \/ cell = Str(<<"n", "a", "n">>)
                                   \/ decoded.k # "ok"
                                THEN Str(<<"n", "a", "n">>) ELSE Str(decoded.v)>>]
         IN  setitem(site_columns_decoded(SubSeq(docs, 1, n - 1), cohort_name,
                                          all_fields),
                     docs[n].site_name.v, column)

RECURSIVE site_columns(_, _, _)
site_columns(docs, cohort_name, all_fields) ==
    IF Len(docs) = 0 THEN <<>>
    ELSE LET n == Len(docs)
             cohort_data == cohort_data_of(docs[n], cohort_name)
             column == [j \in 1..Len(all_fields) |->
                          LET cell == get(cohort_data, all_fields[j], Str(<<>>))
                          IN  <<all_fields[j],
                                IF cell = Null \/ cell = Str(<<"n", "a", "n">>)
                                THEN Str(<<"n", "a", "n">>) ELSE cell>>]
         IN  setitem(site_columns(SubSeq(docs, 1, n - 1), cohort_name, all_fields),
                     docs[n].site_name.v, column)
create_site_based_tables(docs, cohort_name) ==
    IF \E i \in 1..Len(docs) : ~docs[i].site_name.has
    THEN [k |-> "KeyError", v |-> <<>>]
    ELSE Ok(site_columns(docs, cohort_name, get_all_field_names(docs)))

cohorts_to_export ==
    <<<<"antibiotics_only", "table1_antibiotics_only.csv">>,
      <<"intrapleural_lytics", "table1_intrapleural_lytics.csv">>,
      <<"vats_cohort", "table1_vats_cohort.csv">>>>

\* cells of the drawn documents
Cell20 == Str(<<"2", "0">>)
Cell5 == Str(<<"5">>)
Cell3Pct15 == Str(<<"3", " ", "(", "1", "5", ".", "0", "%", ")">>)
Cell7Pct50 == Str(<<"7", " ", "(", "5", "0", "%", ")">>)
CellMean10 == Str(<<"1", "0", ".", "0", " ", PM, " ", "2", ".", "0">>)
CellMean20 == Str(<<"2", "0", ".", "0", " ", PM, " ", "4", ".", "0">>)
CellMedian5 ==
    Str(<<"5", ".", "0", " ", "[", "1", ".", "0", ",", " ", "9", ".", "0", "]">>)
CellMedian7 ==
    Str(<<"7", ".", "0", " ", "[", "2", ".", "0", ",", " ", "1", "1", ".", "0", "]">>)
CellSuppressed == Str(<<"<", "5">>)
CellSuppressedPct == Str(<<"<", "5", " ", "(", "2", ".", "0", "%", ")">>)
CellNan == Str(<<"n", "a", "n">>)
CellText == Str(<<"x">>)
CellDashMean == Str(<<"-", " ", PM, " ", "2", ".", "0">>)

(***************************************************************************)
(* The site documents a run may find.                                      *)
(***************************************************************************)
FieldMapA ==
    <<<<L_N, Cell20>>, <<L_SexMale, Cell3Pct15>>, <<L_AgeMeanSd, CellMean10>>,
      <<L_AgeMedianIqr, CellMedian5>>>>
FieldMapB ==
    <<<<L_N, Cell5>>, <<L_SexMale, Cell7Pct50>>, <<L_AgeMeanSd, CellMean20>>,
      <<L_AgeMedianIqr, CellMedian7>>>>
FieldMapSuppressed ==
    <<<<L_N, CellSuppressed>>, <<L_SexMale, CellSuppressedPct>>, <<L_AgeMeanSd, CellNan>>,
      <<L_AgeMedianIqr, CellText>>>>
FieldMapNull == <<<<L_N, Null>>, <<L_SexMale, Null>>, <<L_SexFemale, JsonNumber>>>>
FieldMapBadMean == <<<<L_N, Cell20>>, <<L_AgeMeanSd, CellDashMean>>>>
FieldMapLower == <<<<L_Sexmale, Cell3Pct15>>, <<L_N, Cell20>>>>
FieldMapBoth == <<<<L_Sexmale, Cell3Pct15>>, <<L_SexMale, Cell7Pct50>>>>
FieldMapNoN ==
    <<<<L_SexMale, Cell3Pct15>>, <<L_UniquePatients, Cell20>>,
      <<L_Vancomycin, Cell3Pct15>>>>
FieldMapMaleThenLower == <<<<L_SexMale, Cell7Pct50>>, <<L_Sexmale, Cell3Pct15>>>>
FieldMaps ==
    {FieldMapA, FieldMapB, FieldMapSuppressed, FieldMapNull, FieldMapBadMean,
     FieldMapLower, FieldMapBoth, FieldMapNoN, FieldMapMaleThenLower, <<>>}

SiteA == <<"S", "i", "t", "e", " ", "A">>
SiteB == <<"S", "i", "t", "e", " ", "B">>

CohortGroups ==
    {<<<<"antibiotics_only", fm>>>> : fm \in FieldMaps}
    \cup {<<>>,
          <<<<"total", FieldMapA>>>>,
          <<<<"antibiotics_only", FieldMapA>>, <<"total", FieldMapB>>>>,
          <<<<"vats_cohort", FieldMapB>>, <<"intrapleural_lytics", FieldMapSuppressed>>>>,
          <<<<"icu_cohort", FieldMapNoN>>>>}

Files ==
    {Document(Some(SiteA), Some(g)) : g \in CohortGroups}
    \cup {Document(Some(SiteB), Some(<<<<"antibiotics_only", fm>>>>)) :
             fm \in {FieldMapB, FieldMapSuppressed}}
    \cup {Document(Some(SiteB), Some(<<<<"total", FieldMapB>>>>)),
          Document(Absent, Some(<<<<"antibiotics_only", FieldMapA>>>>)),
          Document(Some(SiteA), Absent),
          InvalidJson}

(***************************************************************************)
(* main.                                                                   *)
(***************************************************************************)
Init ==
    /\ pc = "main"
    /\ value = Null
    /\ parsed = None
    /\ formatted = None
    /\ values = <<>>
    /\ total_n = 0
    /\ pooled = None
    /\ field = <<>>
    /\ MainIdle
    /\ UpstreamIdle

\* mutant: main goes on to load whatever was found, also nothing
FindTable1Files_unguarded ==
    /\ pc = "main"
    /\ \E fs \in SeqsUpTo(Files, 0, MaxFiles) :
          /\ files' = fs
          /\ pc' = "load_json_files"
    /\ UNCHANGED <<upstreamVars, codecVars, poolVars, total_n, field, data, cohort_i, result,
                   written, error>>

\* lines 290-298: the files found; without any, main reports it and returns
FindTable1Files ==
    /\ pc = "main"
    /\ \E fs \in SeqsUpTo(Files, 0, MaxFiles) :
          /\ files' = fs
          /\ pc' = IF Len(fs) = 0 THEN "no_files" ELSE "load_json_files"
    /\ UNCHANGED <<upstreamVars, codecVars, poolVars, total_n, field, data, cohort_i, result,
                   written, error>>

\* lines 300-302
LoadJsonFiles ==
    /\ pc = "load_json_files"
    /\ LET loaded == load_json_files(files)
       IN  IF loaded.k = "ok"
           THEN data' = loaded.v /\ pc' = "aggregate_data" /\ error' = error
           ELSE data' = data /\ pc' = "error" /\ error' = loaded.k
    /\ UNCHANGED <<upstreamVars, codecVars, poolVars, total_n, field, files, cohort_i, result,
                   written>>

\* lines 205-245: one cohort of aggregate_data, first pass and second pass
AggregateCohort ==
    /\ pc = "aggregate_data"
    /\ cohort_i < Len(cohorts)
    /\ LET cohort == cohorts[cohort_i + 1]
           turn == aggregate_cohort(data, cohort)
       IN  /\ total_n' = turn.total_n
           /\ IF turn.raised
              THEN /\ pc' = "error"
                   /\ error' = "ValueError"
                   /\ UNCHANGED <<cohort_i, result>>
              ELSE /\ result' = Append(result, <<cohort, turn.fields>>)
                   /\ cohort_i' = cohort_i + 1
                   /\ pc' = IF cohort_i + 1 = Len(cohorts) THEN "to_csv"
                            ELSE "aggregate_data"
                   /\ error' = error
    /\ UNCHANGED <<upstreamVars, codecVars, poolVars, field, files, data, written>>

\* lines 306-309: the cohort table is written
WriteCohortTable ==
    /\ pc = "to_csv"
    /\ written' = Append(written, <<"aggregated_table1.csv", result>>)
    /\ pc' = "site_tables"
    /\ UNCHANGED <<upstreamVars, codecVars, poolVars, total_n, field, files, data, cohort_i,
                   result, error>>

\* mutant: the site table is built with setdefault, which adds every field
\* the cohort lacks to the loaded document itself
setdefault_fields(cohort_data, all_fields) ==
    cohort_data
      \o SelectSeq([j \in 1..Len(all_fields) |-> <<all_fields[j], Str(<<>>)>>],
                   LAMBDA p : p[1] \notin keys(cohort_data))
WriteSiteTable_setdefault ==
    /\ pc = "site_tables"
    /\ LET export == cohorts_to_export[Len(written)]
           df_sites == create_site_based_tables(data, export[1])
       IN  IF df_sites.k = "ok"
           THEN /\ written' = Append(written, <<export[2], df_sites.v>>)
                /\ pc' = IF Len(written) = Len(cohorts_to_export) THEN "done"
                         ELSE "site_tables"
                /\ error' = error
                /\ data' = [i \in 1..Len(data) |->
                              [data[i] EXCEPT !.cohort_groups.v =
                                  [g \in 1..Len(@) |->
                                      IF @[g][1] = export[1]
                                      THEN <<@[g][1],
                                             setdefault_fields(@[g][2],
                                                get_all_field_names(data))>>
                                      ELSE @[g]]]]
           ELSE /\ pc' = "error"
                /\ error' = df_sites.k
                /\ written' = written
                /\ data' = data
    /\ UNCHANGED <<upstreamVars, codecVars, poolVars, total_n, field, files, cohort_i,
                   result>>

\* lines 321-326: one site table is built and written
WriteSiteTable ==
    /\ pc = "site_tables"
    /\ LET export == cohorts_to_export[Len(written)]
           df_sites == create_site_based_tables(data, export[1])
       IN  IF df_sites.k = "ok"
           THEN /\ written' = Append(written, <<export[2], df_sites.v>>)
                /\ pc' = IF Len(written) = Len(cohorts_to_export) THEN "done"
                         ELSE "site_tables"
                /\ error' = error
           ELSE /\ pc' = "error"
                /\ error' = df_sites.k
                /\ written' = written
    /\ UNCHANGED <<upstreamVars, codecVars, poolVars, total_n, field, files, data, cohort_i,
                   result>>

Next ==
    \/ FindTable1Files
    \/ LoadJsonFiles
    \/ AggregateCohort
    \/ WriteCohortTable
    \/ WriteSiteTable

Spec == Init /\ [][Next]_vars

(***************************************************************************)
(* main from load_json_files on, over lists of up to MaxSites site files   *)
(* whose cells differ from site to site.                                   *)
(***************************************************************************)
Cell7 == Str(<<"7">>)
CellMean15 == Str(<<"1", "5", ".", "5", " ", PM, " ", "1", ".", "0">>)
CellMedian3 ==
    Str(<<"3", ".", "0", " ", "[", "0", ".", "5", ",", " ", "4", ".", "0", "]">>)
FieldMapC ==
    <<<<L_AgeMedianIqr, CellMedian3>>, <<L_Sexmale, Cell3Pct15>>, <<L_N, Cell7>>,
      <<L_AgeMeanSd, CellMean15>>>>
SiteC == <<"S", "i", "t", "e", " ", "C">>
SiteD == <<"S", "i", "t", "e", " ", "D">>
SiteE == <<"S", "i", "t", "e", " ", "E">>

OrderFiles ==
    {Document(Some(SiteA), Some(<<<<"antibiotics_only", FieldMapA>>>>)),
     Document(Some(SiteB), Some(<<<<"antibiotics_only", FieldMapB>>,
                                  <<"total", FieldMapA>>>>)),
     Document(Some(SiteC), Some(<<<<"antibiotics_only", FieldMapC>>>>)),
     Document(Some(SiteD), Some(<<<<"antibiotics_only", FieldMapSuppressed>>>>)),
     Document(Some(SiteE), Some(<<<<"antibiotics_only", FieldMapBadMean>>>>)),
     Document(Some(SiteA), Some(<<<<"antibiotics_only", FieldMapC>>,
                                  <<"vats_cohort", FieldMapB>>>>))}

InitOrder ==
    /\ pc = "load_json_files"
    /\ files \in SeqsUpTo(OrderFiles, 1, MaxSites)
    /\ data = <<>>
    /\ cohort_i = 0
    /\ result = <<>>
    /\ written = <<>>
    /\ error = "none"
    /\ value = Null
    /\ parsed = None
    /\ formatted = None
    /\ values = <<>>
    /\ total_n = 0
    /\ pooled = None
    /\ field = <<>>
    /\ UpstreamIdle

NextOrder ==
    \/ LoadJsonFiles
    \/ AggregateCohort
    \/ WriteCohortTable
    \/ WriteSiteTable

SpecOrder == InitOrder /\ [][NextOrder]_vars

(***************************************************************************)
(* The dispatch of aggregate_data on one field: a label made of fragments  *)
(* of the texts the rules test, and one cell per site.                     *)
(***************************************************************************)
Fragments ==
    {L_N, L_NSpace, L_UniquePatients, L_Patients, L_MeanSd, L_MedianIqr,
     <<"A", "g", "e", " ">>, <<"x">>, <<" ">>}
RECURSIVE LabelsOf(_)
LabelsOf(n) ==
    IF n = 0 THEN {<<>>}
    ELSE LabelsOf(n - 1) \cup {l \o f : l \in LabelsOf(n - 1), f \in Fragments}
FieldCells == {Cell20, CellMean10, CellMedian5, Cell3Pct15}

InitField ==
    /\ pc = "call_pool_field"
    /\ field \in LabelsOf(MaxParts)
    /\ values \in SeqsUpTo(FieldCells, 1, MaxFiles)
    /\ total_n = 20
    /\ value = Null
    /\ parsed = None
    /\ formatted = None
    /\ pooled = None
    /\ MainIdle
    /\ UpstreamIdle

\* lines 228-245
PoolField ==
    /\ pc = "call_pool_field"
    /\ pooled' = pool_field(field, values, total_n)
    /\ pc' = "pool_field"
    /\ UNCHANGED <<codecVars, values, total_n, field, mainVars, upstreamVars>>

NextField == PoolField

SpecField == InitField /\ [][NextField]_vars

(***************************************************************************)
(* src/code/02_table1.py: the treatment groups and the count statistics of *)
(* a site.  A cohort is given by how many hospitalizations it has of each  *)
(* kind (the two intervention flags and one support flag), by whether all  *)
(* of them are of one patient or each of its own, and by whether they had  *)
(* an ICU stay.  The statistics of continuous variables are not modelled.  *)
(***************************************************************************)
Kinds ==
    [i \in 1..8 |->
        [received_vats_decortication |-> (i - 1) \div 4,
         received_intrapleural_lytic |-> ((i - 1) \div 2) % 2,
         IMV_ever |-> (i - 1) % 2]]

\* mutant: the lytics flag is tested before the VATS flag
assign_treatment_group_lytics_first(row) ==
    IF row.received_intrapleural_lytic = 1 THEN "intrapleural_lytics"
    ELSE IF row.received_vats_decortication = 1 THEN "vats_cohort"
    ELSE "antibiotics_only"

assign_treatment_group(row) ==
    IF row.received_vats_decortication = 1 THEN "vats_cohort"
    ELSE IF row.received_intrapleural_lytic = 1 THEN "intrapleural_lytics"
    ELSE "antibiotics_only"

T_Suppressed == <<"<", "5">>
L_IMV == <<"I", "M", "V">>

\* mutant: a count of zero is shown
suppress_count_zero_shown(count) ==
    IF count < 5 /\ count # 0 THEN T_Suppressed ELSE IntToStr(count)

suppress_count(count) == IF count < 5 THEN T_Suppressed ELSE IntToStr(count)

\* format_count_pct of 02_table1.py
table1_format_count_pct(count, total) ==
    LET count_str == suppress_count(count)
        pct == IF total > 0 THEN FMulInt(TrueDiv(count, total).v, 100) ELSE FromInt(0)
    IN  IF count_str = T_Suppressed
        THEN T_Suppressed \o <<" ", "(">> \o Format1f(pct) \o <<"%", ")">>
        ELSE count_str \o <<" ", "(">> \o Format1f(pct) \o <<"%", ")">>

\* a data frame: the number of rows of each kind
len(df) == sum(df)
RowsWhere(df, Test(_)) == [i \in 1..Len(df) |-> IF Test(i) THEN df[i] ELSE 0]
nunique(df, one_patient) == IF one_patient /\ len(df) > 0 THEN 1 ELSE len(df)

generate_stats_for_group(df, one_patient, icu) ==
    LET n_total == len(df)
        icu_patients == RowsWhere(df, LAMBDA i : icu)
    IN  <<<<L_N, suppress_count(n_total)>>,
          <<L_UniquePatients, suppress_count(nunique(df, one_patient))>>,
          <<L_IMV,
            table1_format_count_pct(
                len(RowsWhere(df, LAMBDA i : Kinds[i].IMV_ever = 1)), n_total)>>>>
        \o (IF len(icu_patients) > 0
            THEN <<<<L_NWithIcuStay, suppress_count(len(icu_patients))>>>>
            ELSE <<>>)

table1_groups == <<"antibiotics_only", "intrapleural_lytics", "vats_cohort", "total">>
GroupRows(df, column, group) ==
    IF group = "total" THEN df ELSE RowsWhere(df, LAMBDA i : column[i] = group)

RECURSIVE CountsUpTo(_, _)
CountsUpTo(k, n) ==
    IF k = 0 THEN {<<>>}
    ELSE UNION {{Append(b, c) : b \in CountsUpTo(k - 1, n - c)} : c \in 0..n}
Cohorts ==
    {[rows |-> r, one_patient |-> p, icu |-> i] :
        r \in CountsUpTo(Len(Kinds), MaxRows), p \in BOOLEAN, i \in BOOLEAN}

InitUpstream ==
    /\ pc = "assign_treatment_group"
    /\ cohort_with_abx \in Cohorts
    /\ cohort_stratified = <<>>
    /\ table1_stratified = <<>>
    /\ value = Null
    /\ parsed = None
    /\ formatted = None
    /\ values = <<>>
    /\ total_n = 0
    /\ pooled = None
    /\ field = <<>>
    /\ MainIdle

\* lines 1017-1018: the treatment_group column
AssignTreatmentGroup ==
    /\ pc = "assign_treatment_group"
    /\ cohort_stratified' = [i \in 1..Len(Kinds) |-> assign_treatment_group(Kinds[i])]
    /\ pc' = "generate_stats_for_group"
    /\ UNCHANGED <<cohort_with_abx, table1_stratified, codecVars, poolVars, total_n,
                   field, mainVars>>

\* lines 1244-1261: the statistics of the next group
GenerateStatsForGroup ==
    /\ pc = "generate_stats_for_group"
    /\ LET group == table1_groups[Len(table1_stratified) + 1]
           df == GroupRows(cohort_with_abx.rows, cohort_stratified, group)
       IN  table1_stratified' =
               Append(table1_stratified,
                      <<group, generate_stats_for_group(df, cohort_with_abx.one_patient,
                                                         cohort_with_abx.icu)>>)
    /\ pc' = IF Len(table1_stratified) + 1 = Len(table1_groups) THEN "table1_done"
             ELSE "generate_stats_for_group"
    /\ UNCHANGED <<cohort_with_abx, cohort_stratified, codecVars, poolVars, total_n,
                   field, mainVars>>

NextUpstream == AssignTreatmentGroup \/ GenerateStatsForGroup

SpecUpstream == InitUpstream /\ [][NextUpstream]_vars

(***************************************************************************)
(* Properties of the decoders (SpecCodec).                                 *)
(***************************************************************************)
\* C1: every decoder returns a decoded value or None for every input and
\* never raises; a sentinel or a non-string input decodes to None.
C1_DecodersNeverRaise ==
    pc \in Parsers =>
        /\ ~Raises(parsed)
        /\ (~isinstance_str(value) \/ value.v \in Sentinels) => parsed = None

(***************************************************************************)
(* Properties of the aggregator (SpecPool).                                *)
(***************************************************************************)
IsPresent(v) == v.k = "ok"
SomePresent(vals) == \E i \in 1..Len(vals) : IsPresent(vals[i])

\* the sum over the sites of component c of the present values (c = 0: the
\* value itself)
RECURSIVE SumPresent(_, _)
SumPresent(vals, c) ==
    IF Len(vals) = 0 THEN 0
    ELSE (IF IsPresent(vals[1])
          THEN (IF c = 0 THEN vals[1].v ELSE vals[1].v[c])
          ELSE 0) + SumPresent(Tail(vals), c)

Percent(s, n) == Float(IF (s < 0) # (n < 0) THEN -1 ELSE 1, 100 * Abs(s), Abs(n))

ZeroCountPct == <<"0", " ", "(", "0", ".", "0", "%", ")">>
CountsOf(vals) == [i \in 1..Len(vals) |-> IF IsPresent(vals[i]) THEN vals[i].v[1] ELSE -1]

C5_ZeroDenominator ==
    pc = "aggregate_counts" =>
        /\ pooled.k = "ok"
        /\ (total_n = 0 \/ ~SomePresent(values)) => pooled = Ok(ZeroCountPct)

C5_Witness ==
    /\ pc = "aggregate_counts"
    /\ total_n = 0
    /\ SomePresent(values)
    /\ SumPresent(values, 1) > 0
    /\ pooled = Ok(ZeroCountPct)

\* C6: the pooled count is the decimal text of the sum of the present
\* integers, absent entries add nothing, and a list without a present value
\* pools to "0"; [5, None, 3] gives "8" and [None, None] gives "0".
C6_CountPooling ==
    pc = "aggregate_n" =>
        /\ pooled = Ok(IntToStr(SumPresent(values, 0)))
        /\ ~SomePresent(values) => pooled.v = <<"0">>
        /\ values = <<Ok(5), None, Ok(3)>> => pooled.v = <<"8">>

C6_Witness ==
    /\ pc = "aggregate_n"
    /\ values = <<Ok(5), None, Ok(3)>>
    /\ pooled = Ok(<<"8">>)

\* the exact mean of component c of the present values
PresentCount(vals) == Cardinality({i \in 1..Len(vals) : IsPresent(vals[i])})
RECURSIVE SumQuarters(_, _)
SumQuarters(vals, c) ==
    IF Len(vals) = 0 THEN 0
    ELSE (IF IsPresent(vals[1])
          THEN Signed(vals[1].v[c]) * (4 \div vals[1].v[c].d)
          ELSE 0) + SumQuarters(Tail(vals), c)
MeanOfPresent(vals, c) ==
    LET q == SumQuarters(vals, c)
    IN  Float(IF q < 0 THEN -1 ELSE 1, Abs(q), 4 * PresentCount(vals))

\* C9: the pooled mean-SD is the unweighted mean of the present means and
\* the unweighted mean of the present SDs, each to one decimal; without a
\* present value it is "nan"; (10.0, 2.0) and (20.0, 4.0) give "15.0 +- 3.0".
C9_MeanSdPooling ==
    pc = "aggregate_means" =>
        /\ SomePresent(values) =>
              pooled = Ok(format_mean_sd(MeanOfPresent(values, 1),
                                         MeanOfPresent(values, 2)))
        /\ ~SomePresent(values) => pooled = Ok(<<"n", "a", "n">>)
        /\ values = <<Ok(<<Q(40), Q(8)>>), Ok(<<Q(80), Q(16)>>)>> =>
              pooled.v = <<"1", "5", ".", "0", " ", PM, " ", "3", ".", "0">>

C9_Witness ==
    /\ pc = "aggregate_means"
    /\ Len(values) = 3
    /\ PresentCount(values) = 2
    /\ SumQuarters(values, 1) = 120
    /\ pooled = Ok(<<"1", "5", ".", "0", " ", PM, " ", "3", ".", "0">>)

\* the median of component c of the present values, from the sorted column
RECURSIVE Insert(_, _)
Insert(sofar, x) ==
    IF Len(sofar) = 0 THEN <<x>>
    ELSE IF FLeq(x, sofar[1]) THEN <<x>> \o sofar
    ELSE <<sofar[1]>> \o Insert(Tail(sofar), x)
RECURSIVE SortedPresent(_, _)
SortedPresent(vals, c) ==
    IF Len(vals) = 0 THEN <<>>
    ELSE IF IsPresent(vals[1]) THEN Insert(SortedPresent(Tail(vals), c), vals[1].v[c])
    ELSE SortedPresent(Tail(vals), c)
MedianOfPresent(vals, c) ==
    LET srt == SortedPresent(vals, c)
        n == Len(srt)
        lo == srt[(n + 1) \div 2]
        hi == srt[n \div 2 + 1]
    IN  Float(IF Signed(lo) * hi.d + Signed(hi) * lo.d < 0 THEN -1 ELSE 1,
              Abs(Signed(lo) * hi.d + Signed(hi) * lo.d), 2 * lo.d * hi.d)

\* C10: the pooled median-IQR holds, component by component, the median of
\* the present medians, of the present Q1s and of the present Q3s (the mean
\* of the two middle values for an even number of sites); without a present
\* value it is "nan"; (5, 1, 9) and (7, 2, 11) give 6.0, 1.5 and 10.0.
C10_MedianIqrPooling ==
    pc = "aggregate_medians" =>
        /\ SomePresent(values) =>
              pooled = Ok(format_median_iqr(MedianOfPresent(values, 1),
                                            MedianOfPresent(values, 2),
                                            MedianOfPresent(values, 3)))
        /\ ~SomePresent(values) => pooled = Ok(<<"n", "a", "n">>)
        /\ values = <<Ok(<<Q(20), Q(4), Q(36)>>), Ok(<<Q(28), Q(8), Q(44)>>)>> =>
              pooled.v = <<"6", ".", "0", " ", "[", "1", ".", "5", ",", " ",
                           "1", "0", ".", "0", "]">>

C10_Witness ==
    /\ pc = "aggregate_medians"
    /\ values = <<Ok(<<Q(20), Q(4), Q(36)>>), Ok(<<Q(28), Q(8), Q(44)>>)>>
    /\ pooled = Ok(<<"6", ".", "0", " ", "[", "1", ".", "5", ",", " ",
                     "1", "0", ".", "0", "]">>)

(***************************************************************************)
(* Properties of aggregate_data (Spec, SpecField).                         *)
(***************************************************************************)
\* the cohort table as one value: cohort -> field -> pooled text
ViewA(docs) ==
    [i \in 1..Len(cohorts) |-> <<cohorts[i], aggregate_cohort(docs, cohorts[i]).fields>>]
ViewARaises(docs) ==
    \E i \in 1..Len(cohorts) : aggregate_cohort(docs, cohorts[i]).raised

MapCells(docs, F(_, _, _, _)) ==
    [i \in 1..Len(docs) |->
        [docs[i] EXCEPT !.cohort_groups.v =
            [g \in 1..Len(@) |->
                <<@[g][1],
                  [e \in 1..Len(@[g][2]) |->
                      <<@[g][2][e][1], F(i, @[g][1], @[g][2][e][1], @[g][2][e][2])>>]>>]]]

\* a count-percentage cell with its percentage number replaced by tok
IsCountPctCell(cell) == cell.t = "str" /\ parse_count_pct(cell).k = "ok"
WithPct(cell, tok) ==
    IF ~IsCountPctCell(cell) THEN cell
    ELSE LET s == cell.v
             lp == 1 + Run(s, 1, DigitSet)
                     + Run(s, 1 + Run(s, 1, DigitSet), SpaceClass)
             n2 == Run(s, lp + 1, PctClass)
         IN  Str(SubSeq(s, 1, lp) \o tok \o SubSeq(s, lp + 1 + n2, Len(s)))
OtherPcts == {<<"9", "9", ".", "9">>, <<"0">>}
PctVariants(docs) ==
    {MapCells(docs, LAMBDA i, c, f, cell : IF i \in S THEN WithPct(cell, tok) ELSE cell) :
        S \in SUBSET (1..Len(docs)) \ {{}}, tok \in OtherPcts}

\* C3: the cohort table does not depend on the percentage numbers of the
\* sites' count-percentage cells: documents that differ only in them pool to
\* the same table.
C3_PercentagesNotTrusted ==
    pc = "to_csv" =>
        \A other \in PctVariants(data) : ~ViewARaises(other) /\ ViewA(other) = result

C3_Witness ==
    /\ pc = "to_csv"
    /\ \E other \in PctVariants(data) : other # data
    /\ get(result[1][2], L_SexMale, <<>>)
         = <<"7", " ", "(", "1", "4", "0", ".", "0", "%", ")">>

\* the sum of the N cells of a cohort that are bare integers
RECURSIVE SumOfN(_, _)
SumOfN(docs, cohort) ==
    IF Len(docs) = 0 THEN 0
    ELSE LET cell == get(cohort_data_of(docs[1], cohort), L_N, Null)
             n == IF cell.t = "str" /\ cell.v \notin Sentinels THEN int_of(cell.v)
                  ELSE ValueError
         IN  (IF n.k = "ok" THEN n.v ELSE 0) + SumOfN(Tail(docs), cohort)
CellsOf(docs, cohort, f) ==
    [i \in 1..Len(docs) |-> get(cohort_data_of(docs[i], cohort), f, Null)]
IsCountPctLabel(f) ==
    /\ f # L_N /\ ~startswith(f, L_NSpace) /\ f # L_UniquePatients
    /\ ~contains(f, L_Patients) /\ ~contains(f, L_MeanSd) /\ ~contains(f, L_MedianIqr)

\* C4: the denominator of a cohort is the sum of its sites' N, it is the
\* integer the cohort table shows for "N" when "N" is a field, and every
\* count-percentage field of the cohort is pooled over that denominator.
C4_TotalNIsPooledN ==
    (cohort_i >= 1 /\ error # "ValueError") =>
        LET cohort == result[cohort_i][1]
            pooled_fields == result[cohort_i][2]
        IN  /\ cohort = cohorts[cohort_i]
            /\ total_n = SumOfN(data, cohort)
            /\ L_N \in keys(pooled_fields) =>
                  int_of(get(pooled_fields, L_N, <<>>)) = Ok(total_n)
            /\ \A f \in keys(pooled_fields) :
                  IsCountPctLabel(f) =>
                      get(pooled_fields, f, <<>>)
                        = aggregate_counts(
                              [i \in 1..Len(data) |->
                                  parse_count_pct(CellsOf(data, cohort, f)[i])],
                              total_n).v

C4_Witness ==
    /\ cohort_i = 1
    /\ total_n = 25
    /\ get(result[1][2], L_N, <<>>) = <<"2", "5">>
    /\ get(result[1][2], L_SexMale, <<>>)
         = <<"1", "0", " ", "(", "4", "0", ".", "0", "%", ")">>

\* a present text cell that the decoder of its field's family does not decode
Decoded(f, cell) ==
    CASE field_family(f) = "Count" -> parse_n(cell)
      [] field_family(f) = "MeanSD" -> parse_mean_sd(cell)
      [] field_family(f) = "MedianIQR" -> parse_median_iqr(cell)
      [] OTHER -> parse_count_pct(cell)
Undecodable(f, cell) == cell.t = "str" /\ Decoded(f, cell).k # "ok"
WithoutCell(docs, i, cohort, f) ==
    [docs EXCEPT ![i].cohort_groups.v =
        [g \in 1..Len(@) |->
            <<@[g][1],
              IF @[g][1] = cohort
              THEN SelectSeq(@[g][2], LAMBDA e : e[1] # f)
              ELSE @[g][2]>>]]
PooledCell(docs, cohort, f) ==
    pool_field(f, CellsOf(docs, cohort, f), first_pass_total_n(docs, cohort))

\* C7: a cell that cannot be decoded for its field's family never aborts
\* aggregate_data, and the pooled value of its (cohort, field) pair is the
\* one obtained with that site's cell absent.
C7_UndecodableCellIsAbsent ==
    \A i \in 1..Len(data) : \A c \in 1..Len(cohorts) :
        \A f \in keys(cohort_data_of(data[i], cohorts[c])) :
            Undecodable(f, get(cohort_data_of(data[i], cohorts[c]), f, Null)) =>
                /\ ~(pc = "error" /\ error = "ValueError")
                /\ c <= cohort_i =>
                      Ok(get(result[c][2], f, <<>>))
                        = PooledCell(WithoutCell(data, i, cohorts[c], f), cohorts[c], f)

\* the rules of the dispatch, in priority order
HasText(s, p) == \E i \in 1..Len(s) : \E j \in i..Len(s) : SubSeq(s, i, j) = p
CountRule(f) ==
    \/ f = L_N
    \/ (Len(f) >= 2 /\ f[1] = "N" /\ f[2] = " ")
    \/ f = L_UniquePatients
    \/ HasText(f, L_Patients)
DecodedWith(P(_), cells) == [i \in 1..Len(cells) |-> P(cells[i])]

\* C8: a label is pooled by the first rule it matches: Count for "N", "N ...",
\* "Unique Patients" or any label containing "Patients", else MeanSD for a
\* label containing "(mean +- SD)", else MedianIQR for one containing
\* "(median [IQR])", else CountPct; so every label has exactly one family.
C8_FirstMatchWins ==
    /\ field_family(L_NWithIcuStay) = "Count"
    /\ field_family(L_Vancomycin) = "CountPct"
    /\ field_family(L_BmiMeanSd) = "MeanSD"
    /\ pc = "pool_field" =>
        /\ CountRule(field) =>
              pooled = aggregate_n(DecodedWith(parse_n, values))
        /\ (~CountRule(field) /\ HasText(field, L_MeanSd)) =>
              pooled = aggregate_means(DecodedWith(parse_mean_sd, values))
        /\ (~CountRule(field) /\ ~HasText(field, L_MeanSd)
              /\ HasText(field, L_MedianIqr)) =>
              pooled = aggregate_medians(DecodedWith(parse_median_iqr, values))
        /\ (~CountRule(field) /\ ~HasText(field, L_MeanSd)
              /\ ~HasText(field, L_MedianIqr)) =>
              pooled = aggregate_counts(DecodedWith(parse_count_pct, values), total_n)

C8_Witness ==
    /\ pc = "pool_field"
    /\ field = L_MeanSd \o L_MedianIqr
    /\ values = <<CellMean10, CellMedian5>>
    /\ pooled = Ok(<<"1", "0", ".", "0", " ", PM, " ", "2", ".", "0">>)

\* a numeral as '.1f' writes it: an optional sign, an integer part without a
\* superfluous leading zero, the point and one digit
Canonical(num) ==
    LET body == IF Len(num) > 0 /\ num[1] = "-" THEN Tail(num) ELSE num
        n == Len(body)
    IN  /\ n >= 3
        /\ body[n - 1] = "."
        /\ \A i \in (1..n) \ {n - 1} : body[i] \in DigitSet
        /\ (n > 3 => body[1] # "0")
CanonicalNumerals == {num \in Numerals : Canonical(num)}
CanonicalMeanSd ==
    {p[1] \o <<" ", PM, " ">> \o p[2] :
        p \in {q \in NumeralPairs : Canonical(q[1]) /\ Canonical(q[2])}}
CanonicalMedianIqr ==
    {t[1] \o <<" ", "[">> \o t[2] \o <<",", " ">> \o t[3] \o <<"]">> :
        t \in {u \in NumeralTriples :
                  Canonical(u[1]) /\ Canonical(u[2]) /\ Canonical(u[3])}}

RowsOf(table) == UNION {keys(table[i][2]) : i \in 1..Len(table)}
\* the cell a site's file holds for the male sex count under either spelling,
\* the later one in the file if it has both
RECURSIVE LastOf(_, _)
LastOf(field_map, labels) ==
    IF Len(field_map) = 0 THEN Null
    ELSE IF field_map[Len(field_map)][1] \in labels
         THEN field_map[Len(field_map)][2]
         ELSE LastOf(SubSeq(field_map, 1, Len(field_map) - 1), labels)
RawSexMale(file, cohort) ==
    LastOf(get(file.cohort_groups.v, cohort, <<>>), {L_Sexmale, L_SexMale})
EmitsLower(file) ==
    \E g \in 1..Len(file.cohort_groups.v) :
        L_Sexmale \in keys(file.cohort_groups.v[g][2])

\* C12: no loaded field map has the key "Sex: male" or "Sex: female"; the
\* field universe and the tables of both views have the row "Sex: Male" once
\* and no row "Sex: male", and the pooled cell of that row is pooled over the
\* sites' cells of either spelling.
C12_SexLabelsMerged ==
    /\ \A i \in 1..Len(data) : \A g \in 1..Len(data[i].cohort_groups.v) :
          /\ L_Sexmale \notin keys(data[i].cohort_groups.v[g][2])
          /\ L_Sexfemale \notin keys(data[i].cohort_groups.v[g][2])
    /\ (Len(data) > 0 /\ \E i \in 1..Len(files) : EmitsLower(files[i])) =>
          LET universe == get_all_field_names(data)
          IN  /\ Cardinality({j \in 1..Len(universe) : universe[j] = L_SexMale}) = 1
              /\ \A j \in 1..Len(universe) : universe[j] # L_Sexmale
              /\ \A c \in 1..Len(result) :
                    /\ L_SexMale \in keys(result[c][2])
                    /\ L_Sexmale \notin keys(result[c][2])
                    /\ get(result[c][2], L_SexMale, <<>>)
                         = aggregate_counts(
                               [i \in 1..Len(files) |->
                                   parse_count_pct(RawSexMale(files[i], cohorts[c]))],
                               first_pass_total_n(data, cohorts[c])).v
              /\ \A w \in 1..Len(written) :
                    /\ L_SexMale \in RowsOf(written[w][2])
                    /\ L_Sexmale \notin RowsOf(written[w][2])

C12_Witness ==
    /\ pc = "done"
    /\ Len(written) = 4
    /\ files = <<Document(Some(SiteA), Some(<<<<"antibiotics_only", FieldMapLower>>>>)),
                 Document(Some(SiteB), Some(<<<<"antibiotics_only", FieldMapB>>>>))>>
    /\ get(result[1][2], L_SexMale, <<>>)
         = <<"1", "0", " ", "(", "4", "0", ".", "0", "%", ")">>

\* the values of a field map
ValuesOf(field_map) == {field_map[e][2] : e \in 1..Len(field_map)}

\* C13: normalize_field_names keeps every key other than "Sex: male" and
\* "Sex: female" with its spelling and its value, invents no key and no
\* value, and applied to its own output returns it unchanged.
C13_OnlySexLabelsChange ==
    \A i \in 1..Len(data) : \A g \in 1..Len(data[i].cohort_groups.v) :
        LET raw == files[i].cohort_groups.v[g][2]
            out == data[i].cohort_groups.v[g][2]
        IN  /\ \A k \in keys(raw) \ {L_Sexmale, L_Sexfemale} :
                  k \in keys(out) /\ get(out, k, Null) = get(raw, k, Null)
            /\ \A k \in keys(out) :
                  \/ k \in keys(raw)
                  \/ k = L_SexMale /\ L_Sexmale \in keys(raw)
                  \/ k = L_SexFemale /\ L_Sexfemale \in keys(raw)
            /\ ValuesOf(out) \subseteq ValuesOf(raw)
            /\ normalize_field_names(out) = out

\* the labels of the rows of a column of a table, top to bottom
RowOrder(column) == [j \in 1..Len(column) |-> column[j][1]]
LabelsIn(docs) ==
    UNION {UNION {keys(docs[i].cohort_groups.v[g][2]) :
                     g \in 1..Len(docs[i].cohort_groups.v)} : i \in 1..Len(docs)}
PriorityRank(label) ==
    CASE label = L_N -> 1
      [] label = L_UniquePatients -> 2
      [] label = L_NWithIcuStay -> 3
      [] label = L_AgeMeanSd -> 4
      [] label = L_AgeMedianIqr -> 5
      [] label = L_BmiMeanSd -> 6
      [] label = L_BmiMedianIqr -> 7
      [] OTHER -> 8
InUniverseOrder(u, docs) ==
    /\ {u[j] : j \in 1..Len(u)} = LabelsIn(docs)
    /\ Len(u) = Cardinality(LabelsIn(docs))
    /\ \A a \in 1..Len(u) : \A b \in (a + 1)..Len(u) :
          \/ PriorityRank(u[a]) < PriorityRank(u[b])
          \/ PriorityRank(u[a]) = 8 /\ PriorityRank(u[b]) = 8 /\ StrLess(u[a], u[b])

\* C14: the field universe holds each label of any cohort of any site once
\* and nothing else, the labels of the priority list first and in that
\* list's order, the others after them in ascending string order; it is the
\* row order of every column of the cohort table and of the site tables.
C14_FieldUniverseOrder ==
    /\ Len(data) > 0 => InUniverseOrder(get_all_field_names(data), data)
    /\ \A c \in 1..Len(result) : InUniverseOrder(RowOrder(result[c][2]), data)
    /\ \A w \in 1..Len(written) : \A c \in 1..Len(written[w][2]) :
          InUniverseOrder(RowOrder(written[w][2][c][2]), data)

C14_Witness ==
    /\ pc = "done"
    /\ Len(data) = 2
    /\ RowOrder(written[2][2][1][2])
         = <<L_N, L_UniquePatients, L_AgeMeanSd, L_AgeMedianIqr, L_Vancomycin,
             L_SexMale>>

\* the cells of the sites that have the cohort and, in it, the field
PresentCells(docs, cohort, f) ==
    LET having == SelectSeq([i \in 1..Len(docs) |-> i],
                            LAMBDA i : f \in keys(cohort_data_of(docs[i], cohort)))
    IN  [j \in 1..Len(having) |-> get(cohort_data_of(docs[having[j]], cohort), f, Null)]

\* C15: on every list of loaded documents aggregate_data returns; its table
\* has the four cohort columns in order and, in each, one non-empty text for
\* every field of the universe, which is the value pooled over the sites that
\* have the cohort and the field.
C15_ViewATotal ==
    Len(data) > 0 =>
        /\ ~(pc = "error" /\ error = "ValueError")
        /\ pc \in {"to_csv", "site_tables", "done"} =>
              /\ [c \in 1..Len(result) |-> result[c][1]] = cohorts
              /\ \A c \in 1..Len(result) :
                    /\ RowOrder(result[c][2]) = get_all_field_names(data)
                    /\ \A j \in 1..Len(result[c][2]) :
                          LET f == result[c][2][j][1]
                              cell == result[c][2][j][2]
                          IN  /\ Len(cell) > 0
                              /\ Ok(cell) = pool_field(f, PresentCells(data, cohorts[c], f),
                                                       first_pass_total_n(data, cohorts[c]))

\* the site tables written so far, and the document a column of one shows:
\* the last one of its site name
SiteTables == {w \in 1..Len(written) : w >= 2}
Shown(i) == \A j \in (i + 1)..Len(data) : data[j].site_name # data[i].site_name
SiteCell(w, i, f) ==
    get(get(written[w][2], data[i].site_name.v, <<>>), f, Null)
RawCell(w, i, f) ==
    get(cohort_data_of(data[i], cohorts_to_export[w - 1][1]), f, Null)
HasCell(w, i, f) ==
    f \in keys(cohort_data_of(data[i], cohorts_to_export[w - 1][1]))
Universe == {get_all_field_names(data)[j] : j \in 1..Len(get_all_field_names(data))}

\* C16: in a site table, the cell of a field the site's cohort lacks (or of a
\* cohort the site lacks), of a null value and of the text "nan" is the text
\* "nan".
C16_MissingRenderedNan ==
    \A w \in SiteTables : \A i \in 1..Len(data) : \A f \in Universe :
        (Shown(i) /\ (~HasCell(w, i, f) \/ RawCell(w, i, f) = Null
                      \/ RawCell(w, i, f) = CellNan)) =>
            SiteCell(w, i, f) = CellNan

\* C17: in a site table, the cell of a field whose value in the site's cohort
\* is a text other than "nan" is that text, character for character; "<5" and
\* "<5 (2.0%)" stay as they are.
C17_RawPassThrough ==
    \A w \in SiteTables : \A i \in 1..Len(data) : \A f \in Universe :
        (Shown(i) /\ HasCell(w, i, f) /\ RawCell(w, i, f).t = "str"
           /\ RawCell(w, i, f) # CellNan) =>
            SiteCell(w, i, f) = RawCell(w, i, f)

C17_Witness ==
    /\ pc = "done"
    /\ Len(data) = 2
    /\ Shown(1)
    /\ SiteCell(3, 1, L_N) = CellSuppressed
    /\ SiteCell(3, 1, L_SexMale) = CellSuppressedPct
    /\ SiteCell(3, 1, L_AgeMedianIqr) = CellText

(***************************************************************************)
(* Properties of the runs of main (Spec).                                  *)
(***************************************************************************)
Ended == pc \in {"done", "no_files", "error"}
Malformed(file) == ~file.json \/ ~file.cohort_groups.has

\* C18: a run of main that has ended, with or without an error, has written
\* all four tables or none of them.
C18_AllOrNothing ==
    Ended => Len(written) \in {0, 1 + Len(cohorts_to_export)}

\* C19: when a file found is not JSON or has no cohort_groups, loading raises
\* the error of the first such file and main ends with it: no document is
\* loaded, nothing is aggregated and no table is written.
C19_MalformedIsFatal ==
    /\ (\E i \in 1..Len(files) : Malformed(files[i])) =>
          /\ pc \in {"load_json_files", "error"}
          /\ data = <<>> /\ cohort_i = 0 /\ result = <<>> /\ written = <<>>
          /\ pc = "error" =>
                LET first == CHOOSE i \in 1..Len(files) :
                                 /\ Malformed(files[i])
                                 /\ \A j \in 1..(i - 1) : ~Malformed(files[j])
                IN  error = IF files[first].json THEN "KeyError" ELSE "JSONDecodeError"
    /\ pc \in {"aggregate_data", "to_csv", "site_tables", "done"} =>
          /\ Len(data) = Len(files)
          /\ \A i \in 1..Len(files) : ~Malformed(files[i])

C19_Witness ==
    /\ pc = "error"
    /\ error = "KeyError"
    /\ Len(files) = 2
    /\ ~Malformed(files[1])
    /\ files[2] = Document(Some(SiteA), Absent)
    /\ written = <<>>

\* C20: when no file is found main returns at once: nothing is loaded,
\* aggregated or written and no error is raised; it returns that way only then.
C20_EmptyInput ==
    /\ (pc # "main" /\ files = <<>>) =>
          /\ pc = "no_files"
          /\ data = <<>> /\ cohort_i = 0 /\ result = <<>> /\ written = <<>>
          /\ error = "none"
    /\ pc = "no_files" => files = <<>>

C20_Witness ==
    /\ pc = "no_files"
    /\ files = <<>>
    /\ written = <<>>
    /\ error = "none"

(***************************************************************************)
(* Leniency and strictness of the decoders (SpecCodec).                    *)
(***************************************************************************)
T_Lt5 == <<"<", "5">>
T_5p0 == <<"5", ".", "0">>
T_12Pct == <<"1", "2", " ", "(", "3", ".", "0", "%", ")">>
T_5x == <<"5", "x">>
\* an optional minus sign and digits, nothing else
BareInteger(s) ==
    LET body == IF Len(s) > 0 /\ s[1] = "-" THEN Tail(s) ELSE s
    IN  Len(body) > 0 /\ \A i \in 1..Len(body) : body[i] \in DigitSet
\* the number the digits of a text spell, read left to right
RECURSIVE SpelledBy(_, _)
SpelledBy(s, sofar) ==
    IF Len(s) = 0 THEN sofar
    ELSE SpelledBy(Tail(s), IF s[1] \in DigitSet THEN 10 * sofar + DigitVal(s[1])
                            ELSE sofar)

\* the statement of C21 as given: parse_n returns an integer only for a text
\* that is a bare integer from its first to its last character
C21_WholeTextBareInteger ==
    pc = "parse_n" => (parsed.k = "ok" => BareInteger(value.v))

\* C21: parse_n never raises; it returns 'no value' for a non-string, for
\* "nan", "<NA>", "" and for every text holding a character that is not a
\* digit, a sign, a blank or an underscore ("<5", "5.0", "12 (3.0%)", "5x");
\* it returns the integer of every bare integer, and what it returns is the
\* number the digits spell, negative when the text has a minus sign: blanks
\* around the integer, a plus sign and single underscores between digits are
\* accepted.
C21_ParseNStrict ==
    /\ parse_n(Str(T_Lt5)) = None /\ parse_n(Str(T_5p0)) = None
    /\ parse_n(Str(T_12Pct)) = None /\ parse_n(Str(T_5x)) = None
    /\ pc = "parse_n" =>
          /\ parsed.k \in {"None", "ok"}
          /\ (~isinstance_str(value) \/ value.v \in Sentinels) => parsed = None
          /\ (isinstance_str(value)
                /\ \E i \in 1..Len(value.v) :
                      value.v[i] \notin DigitSet \cup {" ", "+", "-", "_"}) =>
                parsed = None
          /\ (isinstance_str(value) /\ BareInteger(value.v)) => parsed.k = "ok"
          /\ parsed.k = "ok" =>
                parsed.v = (IF \E i \in 1..Len(value.v) : value.v[i] = "-"
                            THEN -SpelledBy(value.v, 0) ELSE SpelledBy(value.v, 0))

C21_Witness ==
    /\ pc = "parse_n"
    /\ value = Str(<<" ", "2", "5", " ">>)
    /\ parsed = Ok(25)

\* texts put after and before a text that decodes
Suffixes ==
    {<<"x">>, <<" ">>, <<"%">>, <<")">>, <<"]">>, <<"5">>, <<".">>, <<"-">>,
     <<" ", "5">>, <<" ", PM, " ", "5">>, <<"x", "5">>}
Prefixes == {<<"x">>, <<" ">>, <<"<">>, <<"(">>, <<"x", "5">>, <<" ", "5">>}
\* after the first plus-minus sign the text is blanks and then number
\* characters to its end: a number character put after it extends the number
EndsInOpenNumber(s) ==
    \E i \in 1..Len(s) :
        /\ s[i] = PM
        /\ \A j \in 1..(i - 1) : s[j] # PM
        /\ \E k \in (i + 1)..Len(s) :
              /\ \A j \in (i + 1)..(k - 1) : s[j] \in SpaceClass
              /\ \A j \in k..Len(s) : s[j] \in NumClass
Extends(s, t) == EndsInOpenNumber(s) /\ t[1] \in NumClass

\* C22: a text that parse_mean_sd, parse_median_iqr or parse_count_pct decodes
\* decodes to the same value with any text put after it that does not extend
\* its last number, and to 'no value' with a text put before it that does not
\* begin like its first number.
C22_PrefixLeniency ==
    /\ (pc = "parse_mean_sd" /\ parsed.k = "ok") =>
          /\ \A t \in Suffixes :
                ~Extends(value.v, t) => parse_mean_sd(Str(value.v \o t)) = parsed
          /\ \A l \in Prefixes : parse_mean_sd(Str(l \o value.v)) = None
    /\ (pc = "parse_median_iqr" /\ parsed.k = "ok") =>
          /\ \A t \in Suffixes : parse_median_iqr(Str(value.v \o t)) = parsed
          /\ \A l \in Prefixes : parse_median_iqr(Str(l \o value.v)) = None
    /\ (pc = "parse_count_pct" /\ parsed.k = "ok") =>
          /\ \A t \in Suffixes : parse_count_pct(Str(value.v \o t)) = parsed
          /\ \A l \in Prefixes : parse_count_pct(Str(l \o value.v)) = None

C22_Witness ==
    /\ pc = "parse_count_pct"
    /\ value = Str(<<"2", "5", " ", "(", "2", ".", "5", "%", ")", "x">>)
    /\ parsed.k = "ok"
    /\ parsed = parse_count_pct(Str(<<"2", "5", " ", "(", "2", ".", "5", "%", ")">>))
    /\ parse_count_pct(Str(<<"x">> \o value.v)) = None

\* a text ending in "%)" without the percent sign, one ending in ")" with it
EndsWith(s, tail) ==
    Len(s) >= Len(tail) /\ SubSeq(s, Len(s) - Len(tail) + 1, Len(s)) = tail
WithoutPercent(s) == SubSeq(s, 1, Len(s) - 2) \o <<")">>
WithPercent(s) == SubSeq(s, 1, Len(s) - 1) \o <<"%", ")">>
T_42Pct17p0 == <<"4", "2", " ", "(", "1", "7", ".", "0", "%", ")">>
T_42Pct17 == <<"4", "2", " ", "(", "1", "7", "%", ")">>
T_42Bare17 == <<"4", "2", " ", "(", "1", "7", ")">>

\* C23: a text "c (p%)" that parse_count_pct decodes decodes to the same pair
\* without the percent sign, and a text "c (p)" to the same pair with it; the
\* pair is a non-negative integer and a float; "42 (17.0%)", "42 (17%)" and
\* "42 (17)" decode to (42, 17.0).
C23_PercentSignOptional ==
    /\ parse_count_pct(Str(T_42Pct17p0)) = Ok(<<42, FromInt(17)>>)
    /\ parse_count_pct(Str(T_42Pct17)) = Ok(<<42, FromInt(17)>>)
    /\ parse_count_pct(Str(T_42Bare17)) = Ok(<<42, FromInt(17)>>)
    /\ (pc = "parse_count_pct" /\ parsed.k = "ok") =>
          /\ parsed.v[1] \in Nat
          /\ parsed.v[2].sg = 1 /\ parsed.v[2].n \in Nat /\ parsed.v[2].d \in Nat \ {0}
          /\ EndsWith(value.v, <<"%", ")">>) =>
                parse_count_pct(Str(WithoutPercent(value.v))) = parsed
          /\ (EndsWith(value.v, <<")">>) /\ ~EndsWith(value.v, <<"%", ")">>)) =>
                parse_count_pct(Str(WithPercent(value.v))) = parsed

C23_Witness ==
    /\ pc = "parse_count_pct"
    /\ value = Str(<<"2", "5", " ", "(", "2", ".", "5", ")">>)
    /\ parsed.k = "ok"
    /\ parsed.v[1] = 25
    /\ parsed = parse_count_pct(Str(<<"2", "5", " ", "(", "2", ".", "5", "%", ")">>))

(***************************************************************************)
(* Properties of the per-site statistics (SpecUpstream).                   *)
(***************************************************************************)
Strata == {"antibiotics_only", "intrapleural_lytics", "vats_cohort"}
\* the hospitalizations of the cohort that the column puts in a group
SizeOf(group) ==
    LET RECURSIVE Upto(_)
        Upto(i) ==
            IF i = 0 THEN 0
            ELSE Upto(i - 1)
                 + (IF group = "total" \/ cohort_stratified[i] = group
                    THEN cohort_with_abx.rows[i] ELSE 0)
    IN  Upto(Len(Kinds))
FlaggedIn(group) ==
    LET RECURSIVE Upto(_)
        Upto(i) ==
            IF i = 0 THEN 0
            ELSE Upto(i - 1)
                 + (IF (group = "total" \/ cohort_stratified[i] = group)
                       /\ Kinds[i].IMV_ever = 1
                    THEN cohort_with_abx.rows[i] ELSE 0)
    IN  Upto(Len(Kinds))
StatsOf(g) == table1_stratified[g][2]

\* C24: every hospitalization gets exactly one of the three treatment groups,
\* vats_cohort when its VATS flag is 1 whatever the lytics flag, else
\* intrapleural_lytics when its lytics flag is 1, else antibiotics_only; the
\* sizes of the three groups add up to the size of the cohort, and the N of
\* each group and of 'total' is the suppressed size of it.
C24_StrataPartition ==
    pc \in {"generate_stats_for_group", "table1_done"} =>
        /\ \A i \in 1..Len(Kinds) :
              /\ cohort_stratified[i] \in Strata
              /\ cohort_stratified[i] = "vats_cohort"
                    <=> Kinds[i].received_vats_decortication = 1
              /\ cohort_stratified[i] = "intrapleural_lytics"
                    <=> (Kinds[i].received_vats_decortication # 1
                         /\ Kinds[i].received_intrapleural_lytic = 1)
        /\ SizeOf("antibiotics_only") + SizeOf("intrapleural_lytics")
              + SizeOf("vats_cohort") = SizeOf("total")
        /\ SizeOf("total") = sum(cohort_with_abx.rows)
        /\ \A g \in 1..Len(table1_stratified) :
              get(StatsOf(g), L_N, <<>>)
                = (IF SizeOf(table1_stratified[g][1]) < 5 THEN <<"<", "5">>
                   ELSE IntToStr(SizeOf(table1_stratified[g][1])))

C24_Witness ==
    /\ pc = "table1_done"
    /\ cohort_with_abx.rows[7] + cohort_with_abx.rows[8] = 1
    /\ SizeOf("vats_cohort") = 1
    /\ SizeOf("intrapleural_lytics") = 0
    /\ SizeOf("antibiotics_only") = 5
    /\ get(StatsOf(4), L_N, <<>>) = <<"6">>
    /\ get(StatsOf(1), L_N, <<>>) = <<"5">>

\* the text of a cell up to its first blank
CountPart(text) ==
    IF \E i \in 1..Len(text) : text[i] = " "
    THEN SubSeq(text, 1, (CHOOSE i \in 1..Len(text) :
                             text[i] = " " /\ \A j \in 1..(i - 1) : text[j] # " ") - 1)
    ELSE text
\* a count cell shows the count: "<5" below 5, its decimal digits otherwise
Shows(text, count) ==
    IF count < 5 THEN text = <<"<", "5">>
    ELSE /\ \A i \in 1..Len(text) : text[i] \in DigitSet
         /\ text[1] # "0"
         /\ SpelledBy(text, 0) = count

\* C25: in the statistics of every group the cells N, Unique Patients and
\* N with ICU stay and the count of the count-percentage cell are "<5" when
\* the count is below 5, zero included, and the decimal integer otherwise.
C25_SmallCountsSuppressed ==
    \A g \in 1..Len(table1_stratified) :
        LET group == table1_stratified[g][1]
            n == SizeOf(group)
        IN  /\ Shows(get(StatsOf(g), L_N, <<>>), n)
            /\ Shows(get(StatsOf(g), L_UniquePatients, <<>>),
                     IF cohort_with_abx.one_patient /\ n > 0 THEN 1 ELSE n)
            /\ Shows(CountPart(get(StatsOf(g), L_IMV, <<>>)), FlaggedIn(group))
            /\ L_NWithIcuStay \in keys(StatsOf(g)) <=> (cohort_with_abx.icu /\ n > 0)
            /\ L_NWithIcuStay \in keys(StatsOf(g)) =>
                  Shows(get(StatsOf(g), L_NWithIcuStay, <<>>), n)
            /\ \A e \in 1..Len(StatsOf(g)) :
                  int_of(CountPart(StatsOf(g)[e][2])).k = "ok" =>
                      int_of(CountPart(StatsOf(g)[e][2])).v >= 5

C25_Witness ==
    /\ pc = "table1_done"
    /\ get(StatsOf(4), L_N, <<>>) = <<"6">>
    /\ get(StatsOf(4), L_IMV, <<>>)
         = <<"5", " ", "(", "8", "3", ".", "3", "%", ")">>
    /\ get(StatsOf(2), L_N, <<>>) = <<"<", "5">>
    /\ get(StatsOf(2), L_IMV, <<>>) = <<"<", "5", " ", "(", "0", ".", "0", "%", ")">>
    /\ get(StatsOf(3), L_NWithIcuStay, <<>>) = <<"<", "5">>

\* C26: the count-percentage cell of a count below 5 is the same text for
\* every count below 5 of the same group size.
C26_SmallCountsIndistinguishable ==
    \A g \in 1..Len(table1_stratified) :
        LET group == table1_stratified[g][1]
            n == SizeOf(group)
        IN  FlaggedIn(group) < 5 =>
                \A other \in 0..4 :
                    other <= n =>
                        table1_format_count_pct(other, n) = get(StatsOf(g), L_IMV, <<>>)

(***************************************************************************)
(* The loaded documents during the run (Spec).                             *)
(***************************************************************************)
\* document d holds what file f holds, up to the spelling of the keys that
\* normalize_field_names rewrites
SameUpToKeys(d, f) ==
    /\ d.site_name = f.site_name
    /\ Len(d.cohort_groups.v) = Len(f.cohort_groups.v)
    /\ \A g \in 1..Len(d.cohort_groups.v) :
          LET loaded_map == d.cohort_groups.v[g][2]
              file_map == f.cohort_groups.v[g][2]
          IN  /\ d.cohort_groups.v[g][1] = f.cohort_groups.v[g][1]
              /\ \A e \in 1..Len(loaded_map) :
                    \E o \in 1..Len(file_map) :
                       /\ file_map[o][2] = loaded_map[e][2]
                       /\ keys(normalize_field_names(<<file_map[o]>>))
                            = {loaded_map[e][1]}
              /\ \A o \in 1..Len(file_map) :
                    keys(normalize_field_names(<<file_map[o]>>)) \subseteq keys(loaded_map)

\* C27: after load_json_files the documents never change: at every later
\* step of main they are what load_json_files returned, which is the files
\* up to key normalization, and the cohort table and every site table
\* written are computed from those same documents.
C27_DocumentsReadOnly ==
    LET loaded == load_json_files(files)
    IN  /\ pc \in {"aggregate_data", "to_csv", "site_tables", "done"} =>
              /\ loaded.k = "ok"
              /\ data = loaded.v
        /\ pc = "error" => data = (IF loaded.k = "ok" THEN loaded.v ELSE <<>>)
        /\ Len(data) > 0 =>
              /\ Len(data) = Len(files)
              /\ \A i \in 1..Len(data) : SameUpToKeys(data[i], files[i])
              /\ \A i \in 1..Len(result) : result[i] = ViewA(loaded.v)[i]
              /\ Len(written) >= 1 => written[1][2] = ViewA(loaded.v)
              /\ \A w \in 2..Len(written) :
                    written[w][2]
                      = create_site_based_tables(loaded.v, cohorts_to_export[w - 1][1]).v

C27_Witness ==
    /\ pc = "done"
    /\ Len(data) = 2
    /\ data # files
    /\ Len(written) = 4
    /\ \E i \in 1..2 : \E g \in 1..Len(files[i].cohort_groups.v) :
          L_Sexmale \in keys(files[i].cohort_groups.v[g][2])

(***************************************************************************)
(* The order of the pooled quartiles (SpecPool).                           *)
(***************************************************************************)
\* a triple (median, q1, q3) with q1 <= median <= q3
QuartilesOrdered(t) == FLeq(t[2], t[1]) /\ FLeq(t[1], t[3])

\* C28: when every present site triple has q1 <= median <= q3, the three
\* medians aggregate_medians computes, before and after formatting, have
\* pooled q1 <= pooled median <= pooled q3, for an odd and for an even
\* number of present sites.
C28_QuartileOrderPreserved ==
    (/\ pc = "aggregate_medians"
     /\ SomePresent(values)
     /\ \A i \in 1..Len(values) :
           IsPresent(values[i]) => QuartilesOrdered(values[i].v)) =>
        LET valid == Present(values)
            triple == <<np_median(Column(valid, 1)), np_median(Column(valid, 2)),
                        np_median(Column(valid, 3))>>
            shown == parse_median_iqr(Str(pooled.v))
        IN  /\ QuartilesOrdered(triple)
            /\ pooled = Ok(format_median_iqr(triple[1], triple[2], triple[3]))
            /\ shown.k = "ok"
            /\ QuartilesOrdered(shown.v)

C28_Witness ==
    /\ pc = "aggregate_medians"
    /\ values = <<Ok(<<Q(24), Q(24), Q(24)>>), Ok(<<Q(5), Q(2), Q(15)>>),
                  Ok(<<Q(36), Q(12), Q(40)>>)>>
    /\ pooled = Ok(<<"6", ".", "0", " ", "[", "3", ".", "0", ",", " ",
                     "6", ".", "0", "]">>)

(***************************************************************************)
(* The order of the sites (SpecOrder).                                     *)
(***************************************************************************)
Perms(n) == {p \in [1..n -> 1..n] : \A i, j \in 1..n : p[i] = p[j] => i = j}
Permute(docs, p) == [i \in 1..Len(docs) |-> docs[p[i]]]
\* the site names of a list of documents, each at its first place
SiteNames(docs) ==
    LET firsts == SelectSeq([i \in 1..Len(docs) |-> i],
                            LAMBDA i : \A k \in 1..(i - 1) :
                                          docs[k].site_name # docs[i].site_name)
    IN  [j \in 1..Len(firsts) |-> docs[firsts[j]].site_name.v]
ColumnNames(table) == [j \in 1..Len(table) |-> table[j][1]]

\* C29: the cohort table aggregate_data returns is the one it returns on
\* every permutation of the loaded documents, cell by cell and for every
\* family, and it raises on a list when it raises on its permutations; in a
\* site table the columns come in load order, and permuting documents of
\* different sites permutes the columns and changes no cell.
C29_PoolingOrderFree ==
    \A p \in Perms(Len(data)) :
        LET permuted == Permute(data, p)
            turns == [i \in 1..Len(cohorts) |-> aggregate_cohort(permuted, cohorts[i])]
        IN  /\ pc = "to_csv" =>
                  /\ result = [i \in 1..Len(cohorts) |-> <<cohorts[i], turns[i].fields>>]
                  /\ \A i \in 1..Len(cohorts) : ~turns[i].raised
            /\ pc = "error" /\ Len(data) > 0 => ViewARaises(permuted)
            /\ pc = "done" => \A w \in 2..Len(written) :
                  LET cohort_name == cohorts_to_export[w - 1][1]
                      other == create_site_based_tables(permuted, cohort_name).v
                  IN  /\ ColumnNames(written[w][2]) = SiteNames(data)
                      /\ ColumnNames(other) = SiteNames(permuted)
                      /\ Len(SiteNames(data)) = Len(data) =>
                            {written[w][2][j] : j \in 1..Len(written[w][2])}
                              = {other[j] : j \in 1..Len(other)}

C29_Witness ==
    /\ pc = "done"
    /\ Len(data) = 3
    /\ ColumnNames(written[2][2]) = <<SiteB, SiteC, SiteA>>
    /\ get(result[1][2], L_AgeMedianIqr, <<>>)
         = <<"5", ".", "0", " ", "[", "1", ".", "0", ",", " ", "9", ".", "0", "]">>
    /\ get(result[1][2], L_N, <<>>) = <<"3", "2">>

(***************************************************************************)
(* The columns of a site table (Spec).                                     *)
(***************************************************************************)
\* C30: every site table has as many columns as documents were loaded, in
\* load order, and column i shows the values document i has for the cohort,
\* also when two documents carry the same site_name.
C30_OneColumnPerDocument ==
    \A w \in SiteTables :
        /\ Len(written[w][2]) = Len(data)
        /\ \A i \in 1..Len(data) :
              /\ written[w][2][i][1] = data[i].site_name.v
              /\ \A f \in Universe :
                    (HasCell(w, i, f) /\ RawCell(w, i, f).t = "str"
                       /\ RawCell(w, i, f) # CellNan) =>
                        SiteCell(w, i, f) = RawCell(w, i, f)

====
